---- MODULE Spec2Model ----
(***************************************************************************)
(* Model of the screen_capture crate:                                      *)
(*   - the shared-memory (X11) backend CaptureX11 and its accessors        *)
(*     ImageX11 (src/src/linux/linux.rs),                                  *)
(*   - the single-threaded Capturer (src/src/capturer.rs),                 *)
(*   - the ThreadedCapturer worker loop (src/src/capturer.rs),             *)
(*   - the matcher CaptureSpecification::get_config called on its own.     *)
(* Each part has its own specification (SpecX11, SpecCapturer,             *)
(* SpecThreaded, SpecThreadedFair, SpecMatcher) over the same variables;   *)
(* the variables of the other parts stay at their initial values.          *)
(***************************************************************************)
EXTENDS Integers, Sequences, FiniteSets, TLC

(***************************************************************************)
(* Bounds of the model.                                                    *)
(***************************************************************************)
\* Number of backend calls (prepare / capture_image / image / drop) in a run.
MaxOps == 4

\* Number of calls (capture / set_config) made on a Capturer in a run.
MaxEvents == 3

\* Number of capture attempts of a worker in a run.
MaxCounter == 2

\* Number of messages in flight in the channels of a ThreadedCapturer.
MaxQueue == 1

\* Number of messages in flight in them before the worker's first attempt.
MaxEarly == 2

\* Number of rules in a list given to the matcher.
MaxRules == 2

\* The worker's clock is followed for this many ticks.
MaxTime == 12

\* The widest image given to the conversions to RGBA.
MaxWidth == 15

\* The widest and highest image pixel() is called on, the duplication
\* backend's images apart, which have the sizes of its display modes.
MaxSide == 3

\* The largest index bisect is asked to search up to.
MaxIndex == 5

\* The widest and highest image given to find_borders.
MaxImage == 6

\* The modulus of the model's unsigned words (stands for 2^32).
WordModulus == 256

\* Geometry of the root window reported by XGetWindowAttributes.
DisplayW == 2
DisplayH == 2

VARIABLES
    \* ---- CaptureX11 (linux.rs:75-83) and the heap it shares ----
    x11_state,      \* "live" | "dropped" | "drop_panicked"
    x11_image,      \* self.image: 0 is None, n > 0 is Some(n-th XImage created)
    image_poison,   \* self.image_poison: index into flags
    pos_x, pos_y,   \* self.pos_x, self.pos_y
    flags,          \* heap of Rc<AtomicBool>: sequence of BOOLEAN
    ximages,        \* heap of XImage: sequence of [width, height, freed,
                    \* attached], "attached" being the state of its shared
                    \* memory segment at the server, and as a ghost the width
                    \* and height prepare was asked for
    accessors,      \* every ImageX11 handed out: [image, poisoned, born]
    hist,           \* ghost: the backend calls made so far, in order
    lastRead,       \* ghost: the last read done on an accessor and its outcome
    \* ---- the build ----
    overflow_checks,    \* TRUE: arithmetic overflow panics (dev profile);
                        \* FALSE: it wraps (release profile)
    \* ---- Capturer (capturer.rs:92-96) and its backend ----
    config,             \* self.config: [capture, rate]
    cached_resolution,  \* self.cached_resolution: <<>> is None, <<r>> is Some(r)
    resolution,         \* what self.grabber.resolution() returns at present
    cap_status,         \* "ready" | "panicked": a panic unwinds out of capture()
    trace,              \* ghost: the calls made on the Capturer, in order
    \* ---- ThreadedCapturer (capturer.rs:213-222) and its worker thread ----
    running,        \* the AtomicBool shared with the worker
    owner,          \* the thread owning the ThreadedCapturer:
                    \* "alive" | "joining" | "dropped" | "drop_panicked"
    wpc,            \* where the worker is in its closure (capturer.rs:253-362)
    counter,        \* the worker's counter
    pre_callback,   \* the worker's pre_callback: 0 is the initial no-op
    post_callback,  \* the worker's post_callback: 0 is the initial no-op
    chan_config,    \* messages in flight from sender_config to receiver_config
    chan_pre,       \* messages in flight from sender_pre to receiver_pre
    chan_post,      \* messages in flight from sender_post to receiver_post
    mirror,         \* the Mutex<CaptureConfig> read by config()
    latest,         \* the Mutex<CaptureInfo> read by latest()
    latest_lock,    \* who holds the mutex of latest: "free" | "worker"
    w_img,          \* the worker's img: the result of capturer.capture()
    w_info,         \* the worker's info, built under the lock
    log,            \* ghost: callback invocations and captures, in order
    w_effect,       \* ghost: what the last capturer.capture() did
    lastSeen,       \* ghost: what the last latest() call returned
    stopped_starts, \* ghost: attempts begun after running was set false
    \* ---- a call of CaptureSpecification::get_config (capturer.rs:40-78) ----
    m_args,         \* the arguments: [width, height, specs]
    m_ret,          \* <<>> while the call is to be made, then <<result>>
    \* ---- CaptureWin (windows.rs:170-181), its textures and the display ----
    win_output,     \* self.output is Some
    win_duplicator, \* self.duplicator: <<>> is None, <<m>> is Some(duplicator
                    \* created while the display was in mode m)
    win_image,      \* self.image: 0 is None, n > 0 is Some(n-th texture)
    win_textures,   \* heap of ID3D11Texture2D: sequence of [width, height,
                    \* frame], frame 0 being the content of a new texture
    win_accessors,  \* every ImageWin handed out: [image, width, height,
                    \* RowPitch]
    win_mode,       \* the display mode at present: [width, height]
    win_hist,       \* ghost: the backend calls made so far, in order
    win_read,       \* ghost: the last read done on an accessor and its outcome
    \* ---- a call of a function studied on its own ----
    f_args,         \* the arguments of the call
    f_ret,          \* <<>> while the call is to be made, then <<result>>
    \* ---- the worker thread's clock and what it keeps of it ----
    now,            \* Instant::now(), in ticks since the worker started
    last_end,       \* the worker's last_end
    last_duration   \* the worker's last_duration

x11vars == <<x11_state, x11_image, image_poison, pos_x, pos_y, flags, ximages,
             accessors, hist, lastRead>>

capvars == <<overflow_checks, config, cached_resolution, resolution, cap_status,
             trace>>

thrvars == <<running, owner, wpc, counter, pre_callback, post_callback,
             chan_config, chan_pre, chan_post, mirror, latest, latest_lock,
             w_img, w_info, log, w_effect, lastSeen, stopped_starts>>

matchvars == <<m_args, m_ret>>

winvars == <<win_output, win_duplicator, win_image, win_textures, win_accessors,
             win_mode, win_hist, win_read>>

fnvars == <<f_args, f_ret>>

clockvars == <<now, last_end, last_duration>>

vars == <<x11vars, capvars, thrvars, matchvars, winvars, fnvars, clockvars>>

Min(a, b) == IF a <= b THEN a ELSE b

(***************************************************************************)
(* CaptureSpecification and the matcher (capturer.rs:10-79).               *)
(***************************************************************************)
\* u32 arithmetic wraps modulo 2^32; TLC's integers are narrower than
\* that, so the model's words wrap modulo WordModulus (every value the model
\* uses is far below it, as every display size is far below 2^32).

\* Option<u32>: <<>> is None, <<n>> is Some(n).
Rule(mw, mh, x, y, w, h, d) ==
    [match_width |-> mw, match_height |-> mh, x |-> x, y |-> y,
     width |-> w, height |-> h, display |-> d]

\* CaptureSpecification { width, height, ..Default::default() }
DefaultSpecification_empty(W, H) == Rule(<<>>, <<>>, 0, 0, 0, 0, 0)
DefaultSpecification(W, H) == Rule(<<>>, <<>>, 0, 0, W, H, 0)

\* The result of get_config: the specification, or a panic on the u32
\* subtraction when the build checks overflow.
Found(spec) == [panic |-> FALSE, spec |-> spec]
Panicked == [panic |-> TRUE, spec |-> DefaultSpecification(0, 0)]

\* a - b on u32 (capturer.rs:60, 65).
SubOverflows(a, b) == b > a
WrappingSub(a, b) == (a - b + WordModulus) % WordModulus

\* capturer.rs:58-69: copy the rule and fill in a zero width and height.
Populate(spec, W, H, checks) ==
    IF checks /\ (\/ spec.width = 0 /\ SubOverflows(W, spec.x)
                  \/ spec.height = 0 /\ SubOverflows(H, spec.y))
    THEN Panicked
    ELSE Found([spec EXCEPT
                  !.width  = IF spec.width = 0
                             THEN WrappingSub(W, spec.x) ELSE spec.width,
                  !.height = IF spec.height = 0
                             THEN WrappingSub(H, spec.y) ELSE spec.height])

\* capturer.rs:46-55
Matches_any_predicate(spec, W, H) ==
    \/ spec.match_width = <<>> \/ spec.match_width[1] = W
    \/ spec.match_height = <<>> \/ spec.match_height[1] = H
Matches(spec, W, H) ==
    /\ spec.match_width = <<>> \/ spec.match_width[1] = W
    /\ spec.match_height = <<>> \/ spec.match_height[1] = H

\* The loop of get_config from rule i on.
RECURSIVE get_config_from(_, _, _, _, _)
get_config_from(i, W, H, specs, checks) ==
    IF i > Len(specs) THEN Found(DefaultSpecification(W, H))
    ELSE IF Matches(specs[i], W, H) THEN Populate(specs[i], W, H, checks)
    ELSE get_config_from(i + 1, W, H, specs, checks)

\* CaptureSpecification::get_config (capturer.rs:40-78).
get_config(W, H, specs, checks) == get_config_from(1, W, H, specs, checks)

(***************************************************************************)
(* Capturer (capturer.rs:92-161) over a backend `dyn Capture'.             *)
(***************************************************************************)
\* The errors a backend call can return.
Errors == {"LostCaptureError", "TransientError"}
StepResults == {"Ok"} \cup Errors

\* The display resolutions the backend reports.
Resolutions == {[width |-> 2, height |-> 2], [width |-> 3, height |-> 2]}

\* The rule lists of the configurations in use.
RuleLists ==
    { <<>>,
      <<Rule(<<3>>, <<>>, 1, 0, 0, 1, 0), Rule(<<>>, <<>>, 0, 1, 2, 0, 1)>>,
      <<Rule(<<>>, <<2>>, 3, 0, 0, 0, 0)>> }

\* The rates of the configurations in use (captures per second).
Rates == {-1, 0, 5}

Configs == [capture : RuleLists, rate : Rates]

\* The rate is used only by the ThreadedCapturer (capturer.rs:87-88): a caller
\* of the Capturer alone varies the rule list.
CapturerConfigs == {c \in Configs : c.rate = 5}

\* A call made on the backend and what it returned.
Call(fn, args, ret) == [fn |-> fn, args |-> args, ret |-> ret]

\* What a method of the Capturer did: its result ("Ok", an error, or "Panic"),
\* the cached resolution it leaves and the backend calls it made.
Effect(result, cached, calls) ==
    [result |-> result, cached |-> cached, calls |-> calls]

\* Capturer::update_resolution (capturer.rs:112-138). prep: what prepare_capture
\* returns if it is called.
update_resolution_cache_always(cfg, cached, cur, checks, prep) ==
    LET m == get_config(cur.width, cur.height, cfg.capture, checks)
        c == Call("prepare_capture",
                  <<m.spec.display, m.spec.x, m.spec.y, m.spec.width, m.spec.height>>,
                  prep)
    IN  IF cached # <<>> /\ cached[1] = cur THEN Effect("Ok", cached, <<>>)
        ELSE IF m.panic THEN Effect("Panic", cached, <<>>)
        ELSE Effect(prep, <<cur>>, <<c>>)

update_resolution(cfg, cached, cur, checks, prep) ==
    LET m == get_config(cur.width, cur.height, cfg.capture, checks)
        c == Call("prepare_capture",
                  <<m.spec.display, m.spec.x, m.spec.y, m.spec.width, m.spec.height>>,
                  prep)
    IN  IF cached # <<>> /\ cached[1] = cur THEN Effect("Ok", cached, <<>>)
        ELSE IF m.panic THEN Effect("Panic", cached, <<>>)
        ELSE IF prep # "Ok" THEN Effect(prep, cached, <<c>>)
        ELSE Effect("Ok", <<cur>>, <<c>>)

\* Capturer::capture (capturer.rs:152-160): update_resolution()?, then
\* capture_image()?, then image().unwrap(). cap and img: what capture_image and
\* image return if they are called.
capture_forget_on_error(cfg, cached, cur, checks, prep, cap, img) ==
    LET u == update_resolution(cfg, cached, cur, checks, prep)
        c1 == Call("capture_image", <<>>, cap)
        c2 == Call("image", <<>>, img)
    IN  IF u.result # "Ok" THEN u
        ELSE IF cap # "Ok" THEN Effect(cap, <<>>, Append(u.calls, c1))
        ELSE IF img # "Ok" THEN Effect("Panic", u.cached, u.calls \o <<c1, c2>>)
        ELSE Effect("Ok", u.cached, u.calls \o <<c1, c2>>)
capture(cfg, cached, cur, checks, prep, cap, img) ==
    LET u == update_resolution(cfg, cached, cur, checks, prep)
        c1 == Call("capture_image", <<>>, cap)
        c2 == Call("image", <<>>, img)
    IN  IF u.result # "Ok" THEN u
        ELSE IF cap # "Ok" THEN Effect(cap, u.cached, Append(u.calls, c1))
        ELSE IF img # "Ok" THEN Effect("Panic", u.cached, u.calls \o <<c1, c2>>)
        ELSE Effect("Ok", u.cached, u.calls \o <<c1, c2>>)

(***************************************************************************)
(* CaptureInfo and the ThreadedCapturer's shared state                     *)
(* (capturer.rs:168-252).                                                  *)
(***************************************************************************)
\* A CaptureInfo. The times are kept by the attempt that measured them: time n
\* is the SystemTime read in attempt n and duration n the end - start of
\* attempt n; 0 is the time of construction and the zero duration.
CaptureInfo(result, time, duration, n) ==
    [result |-> result, time |-> time, duration |-> duration, counter |-> n]

\* Default for CaptureInfo (capturer.rs:200-211).
DefaultCaptureInfo_ok == CaptureInfo("Ok", 0, 0, 0)
DefaultCaptureInfo == CaptureInfo("NotInitialised", 0, 0, 0)

\* No capture() was made yet.
NoEffect == Effect("none", <<>>, <<>>)

\* No ThreadedCapturer exists.
IdleThreaded ==
    /\ running = FALSE
    /\ owner = "dropped"
    /\ wpc = "done"
    /\ counter = 0
    /\ pre_callback = 0
    /\ post_callback = 0
    /\ chan_config = <<>>
    /\ chan_pre = <<>>
    /\ chan_post = <<>>
    /\ mirror = [capture |-> <<>>, rate |-> 0]
    /\ latest = DefaultCaptureInfo
    /\ latest_lock = "free"
    /\ w_img = "none"
    /\ w_info = DefaultCaptureInfo
    /\ log = <<>>
    /\ w_effect = NoEffect
    /\ lastSeen = DefaultCaptureInfo
    /\ stopped_starts = 0

\* No call of get_config is under study.
IdleMatcher ==
    /\ m_args = [width |-> 0, height |-> 0, specs |-> <<>>]
    /\ m_ret = <<>>

\* A display mode: the size of the desktop image in pixels.
WinModes == {[width |-> 5, height |-> 2], [width |-> 6, height |-> 3]}

NoWinRead == [acc |-> 0, op |-> "none", outcome |-> "none", x |-> 0, y |-> 0]

\* No CaptureWin is in use.
IdleWin ==
    /\ win_output = FALSE
    /\ win_duplicator = <<>>
    /\ win_image = 0
    /\ win_textures = <<>>
    /\ win_accessors = <<>>
    /\ win_mode = [width |-> 5, height |-> 2]
    /\ win_hist = <<>>
    /\ win_read = NoWinRead

\* No function is called on its own.
IdleFn ==
    /\ f_args = <<>>
    /\ f_ret = <<>>

\* The worker's clock is not looked at.
IdleClock ==
    /\ now = 0
    /\ last_end = 0
    /\ last_duration = 0

\* The Capturer is not in use.
IdleCapturer ==
    /\ overflow_checks = FALSE
    /\ config = [capture |-> <<>>, rate |-> 0]
    /\ cached_resolution = <<>>
    /\ resolution = [width |-> 2, height |-> 2]
    /\ cap_status = "ready"
    /\ trace = <<>>

(***************************************************************************)
(* ImageX11: the accessor (linux.rs:10-72).                                *)
(***************************************************************************)
\* The operations of the ImageBGR trait a caller can invoke on an accessor.
ReadOps == {"width", "height", "pixel", "data", "to_rgba", "to_rgb"}

NoRead == [acc |-> 0, op |-> "none", outcome |-> "none", at |-> 0]

\* check_poisoned: TRUE when the accessor's flag is set, in which case it panics
\* with "interacting with stale image" (the invalidated-access condition).
check_poisoned_nocheck(a) == FALSE
check_poisoned(a) == flags[accessors[a].poisoned]

\* Reading through self.image: the XImage is still allocated, or it was
\* released by XDestroyImage and the read is a use after free.
Deref(a) ==
    IF ximages[accessors[a].image].freed
    THEN {"Ok", "Garbage", "Crash"}
    ELSE {"Ok"}

\* width(), height(), pixel() with in-range coordinates, data(): the poison
\* check first, then the read through the raw pointer.
width(a)  == IF check_poisoned(a) THEN {"InvalidatedAccess"} ELSE Deref(a)
height(a) == IF check_poisoned(a) THEN {"InvalidatedAccess"} ELSE Deref(a)
data(a)   == IF check_poisoned(a) THEN {"InvalidatedAccess"} ELSE Deref(a)
pixel(a) ==
    IF check_poisoned(a) THEN {"InvalidatedAccess"}
    ELSE LET w == width(a)
             h == height(a)
         IN  IF w # {"Ok"} THEN w ELSE IF h # {"Ok"} THEN h ELSE Deref(a)

\* to_rgba_simple / to_rgb (lib.rs:99-157): data() first, then width() and
\* height(); the first failing call ends the conversion.
Conversion(a) ==
    LET d == data(a)
        w == width(a)
        h == height(a)
    IN  IF d # {"Ok"} THEN d ELSE IF w # {"Ok"} THEN w ELSE h
to_rgba(a) == Conversion(a)
to_rgb(a)  == Conversion(a)

ReadOutcomes(a, op) ==
    CASE op = "width"   -> width(a)
      [] op = "height"  -> height(a)
      [] op = "pixel"   -> pixel(a)
      [] op = "data"    -> data(a)
      [] op = "to_rgba" -> to_rgba(a)
      [] op = "to_rgb"  -> to_rgb(a)

\* A caller reads an accessor it holds.
Read(a, op) ==
    /\ \E o \in ReadOutcomes(a, op) :
           lastRead' = [acc |-> a, op |-> op, outcome |-> o, at |-> Len(hist)]
    /\ UNCHANGED <<x11_state, x11_image, image_poison, pos_x, pos_y, flags,
                   ximages, accessors, hist>>
    /\ UNCHANGED <<capvars, thrvars, matchvars, winvars, fnvars, clockvars>>

(***************************************************************************)
(* CaptureX11 (linux.rs:85-267).                                           *)
(***************************************************************************)
\* poison_image: set the current flag, then install a fresh one. The result is
\* the new heap of flags; the new current flag is its last element.
poison_image_keep(fl, cur) == Append(fl, FALSE)
poison_image(fl, cur) == Append([fl EXCEPT ![cur] = TRUE], FALSE)

\* The requests prepare is called with: <<x, y, width, height>>; the last one
\* has an offset in the upper half of the unsigned words.
PrepareArgs == {<<0, 0, 0, 0>>, <<1, 0, 1, 0>>, <<3, 1, 0, 5>>, <<200, 0, 0, 0>>}

\* `v as i32' on a u32 and `v as u32' on an i32 keep the bits (linux.rs:139,
\* 148, 154-157, 170-171); i32 arithmetic wraps in the build without overflow
\* checks.
AsI32(v) == IF v >= WordModulus \div 2 THEN v - WordModulus ELSE v
AsU32(v) == v % WordModulus
WrapI32(v) == AsI32(AsU32(v))

CanCall == x11_state = "live" /\ Len(hist) < MaxOps

\* prepare (linux.rs:121-198). getattr_ok: XGetWindowAttributes returned 1;
\* attach_ok: XShmAttach returned non-zero.
prepare(x, y, w, h, getattr_ok, attach_ok) ==
    /\ CanCall
    /\ flags' = poison_image(flags, image_poison)
    /\ image_poison' = Len(flags')
    /\ IF ~getattr_ok
       THEN /\ hist' = Append(hist, [op |-> "prepare", ok |-> FALSE])
            /\ UNCHANGED <<x11_image, pos_x, pos_y, ximages>>
       ELSE LET w1 == Min(IF w # 0 THEN AsI32(w) ELSE DisplayW, DisplayW)
                h1 == Min(IF h # 0 THEN AsI32(h) ELSE DisplayH, DisplayH)
                x1 == Min(AsI32(x), DisplayW)
                y1 == Min(AsI32(y), DisplayH)
                w2 == Min(w1, WrapI32(DisplayW - x1))
                h2 == Min(h1, WrapI32(DisplayH - y1))
            IN  /\ pos_x' = AsU32(x1)
                /\ pos_y' = AsU32(y1)
                /\ ximages' = Append(ximages,
                                     [width |-> AsU32(w2), height |-> AsU32(h2),
                                      freed |-> FALSE, attached |-> attach_ok,
                                      asked |-> <<w, h>>])
                /\ x11_image' = Len(ximages')
                /\ hist' = Append(hist, [op |-> "prepare", ok |-> attach_ok])
    /\ UNCHANGED <<x11_state, accessors, lastRead>>
    /\ UNCHANGED <<capvars, thrvars, matchvars, winvars, fnvars, clockvars>>

\* A capture_image that leaves the flags alone.
capture_image_no_poison(got) ==
    /\ CanCall
    /\ hist' = Append(hist, [op |-> "capture_image",
                             ok |-> IF x11_image = 0 THEN FALSE
                                    ELSE ximages[x11_image].attached /\ got])
    /\ UNCHANGED <<x11_state, x11_image, image_poison, pos_x, pos_y, flags,
                   ximages, accessors, lastRead>>
    /\ UNCHANGED <<capvars, thrvars, matchvars, winvars, fnvars, clockvars>>

\* capture_image (linux.rs:202-217). got: what XShmGetImage returns for an
\* image whose segment is attached; for a segment the server does not know
\* the request fails.
capture_image(got) ==
    /\ CanCall
    /\ flags' = poison_image(flags, image_poison)
    /\ image_poison' = Len(flags')
    /\ hist' = Append(hist, [op |-> "capture_image",
                             ok |-> IF x11_image = 0 THEN FALSE
                                    ELSE ximages[x11_image].attached /\ got])
    /\ UNCHANGED <<x11_state, x11_image, pos_x, pos_y, ximages, accessors, lastRead>>
    /\ UNCHANGED <<capvars, thrvars, matchvars, winvars, fnvars, clockvars>>

\* image (linux.rs:218-230): poisons, then on Some(image) makes one more flag
\* that the backend and the new accessor share.
image_stale_flag ==
    /\ CanCall
    /\ flags' = poison_image(flags, image_poison)
    /\ image_poison' = Len(flags')
    /\ IF x11_image # 0
       THEN /\ accessors' = Append(accessors,
                   [image |-> x11_image, poisoned |-> image_poison,
                    born |-> Len(hist) + 1])
            /\ hist' = Append(hist, [op |-> "image", ok |-> TRUE])
       ELSE /\ hist' = Append(hist, [op |-> "image", ok |-> FALSE])
            /\ UNCHANGED accessors
    /\ UNCHANGED <<x11_state, x11_image, pos_x, pos_y, ximages, lastRead>>
    /\ UNCHANGED <<capvars, thrvars, matchvars, winvars, fnvars, clockvars>>

image ==
    /\ CanCall
    /\ LET poisoned == poison_image(flags, image_poison)
       IN  IF x11_image # 0
           THEN /\ flags' = Append(poisoned, FALSE)
                /\ image_poison' = Len(flags')
                /\ accessors' = Append(accessors,
                       [image |-> x11_image, poisoned |-> Len(flags'),
                        born |-> Len(hist) + 1])
                /\ hist' = Append(hist, [op |-> "image", ok |-> TRUE])
           ELSE /\ flags' = poisoned
                /\ image_poison' = Len(flags')
                /\ hist' = Append(hist, [op |-> "image", ok |-> FALSE])
                /\ UNCHANGED accessors
    /\ UNCHANGED <<x11_state, x11_image, pos_x, pos_y, ximages, lastRead>>
    /\ UNCHANGED <<capvars, thrvars, matchvars, winvars, fnvars, clockvars>>

\* Drop for CaptureX11 (linux.rs:85-92): XDestroyImage(self.image.unwrap());
\* the unwrap panics on None. No flag is touched.
drop_x11 ==
    /\ CanCall
    /\ hist' = Append(hist, [op |-> "drop", ok |-> x11_image # 0])
    /\ IF x11_image # 0
       THEN /\ ximages' = [ximages EXCEPT ![x11_image].freed = TRUE]
            /\ x11_state' = "dropped"
       ELSE /\ x11_state' = "drop_panicked"
            /\ UNCHANGED ximages
    /\ UNCHANGED <<x11_image, image_poison, pos_x, pos_y, flags, accessors, lastRead>>
    /\ UNCHANGED <<capvars, thrvars, matchvars, winvars, fnvars, clockvars>>

\* CaptureX11::new (linux.rs:95-114): the backend before any call.
IdleX11 ==
    /\ x11_state = "live"
    /\ x11_image = 0
    /\ image_poison = 1
    /\ pos_x = 0
    /\ pos_y = 0
    /\ flags = <<FALSE>>
    /\ ximages = <<>>
    /\ accessors = <<>>
    /\ hist = <<>>
    /\ lastRead = NoRead

InitX11 ==
    /\ IdleX11
    /\ IdleCapturer
    /\ IdleThreaded
    /\ IdleMatcher
    /\ IdleWin
    /\ IdleFn
    /\ IdleClock

NextX11 ==
    \/ \E a \in PrepareArgs, g \in BOOLEAN, s \in BOOLEAN :
           prepare(a[1], a[2], a[3], a[4], g, s)
    \/ \E got \in BOOLEAN : capture_image(got)
    \/ image
    \/ drop_x11
    \/ \E a \in 1..Len(accessors), op \in ReadOps : Read(a, op)

SpecX11 == InitX11 /\ [][NextX11]_vars

(***************************************************************************)
(* The Capturer used directly by one caller.                               *)
(***************************************************************************)
Event(ev, cfg, cached, cur, after, calls, result) ==
    [ev |-> ev, cfg |-> cfg, cached |-> cached, cur |-> cur, after |-> after,
     calls |-> calls, result |-> result]

CanUse == cap_status = "ready" /\ Len(trace) < MaxEvents

\* A call of Capturer::capture; the backend's answers are prep, cap and img.
CapturerCapture(prep, cap, img) ==
    /\ CanUse
    /\ LET e == capture(config, cached_resolution, resolution, overflow_checks,
                        prep, cap, img)
       IN  /\ cached_resolution' = e.cached
           /\ cap_status' = IF e.result = "Panic" THEN "panicked" ELSE "ready"
           /\ trace' = Append(trace,
                  Event("capture", config, cached_resolution, resolution,
                        e.cached, e.calls, e.result))
    /\ UNCHANGED <<overflow_checks, config, resolution>>
    /\ UNCHANGED <<x11vars, thrvars, matchvars, winvars, fnvars, clockvars>>

\* Capturer::set_config (capturer.rs:141-144): the configuration and the cached
\* resolution it leaves.
set_config(c) == [config |-> c, cached |-> <<>>]

CapturerSetConfig(c) ==
    /\ CanUse
    /\ config' = set_config(c).config
    /\ cached_resolution' = set_config(c).cached
    /\ trace' = Append(trace,
           Event("set_config", c, cached_resolution, resolution, <<>>, <<>>, "Ok"))
    /\ UNCHANGED <<overflow_checks, resolution, cap_status>>
    /\ UNCHANGED <<x11vars, thrvars, matchvars, winvars, fnvars, clockvars>>

\* The display mode changes: resolution() answers r from now on.
ResolutionChange(r) ==
    /\ r # resolution
    /\ resolution' = r
    /\ UNCHANGED <<overflow_checks, config, cached_resolution, cap_status, trace>>
    /\ UNCHANGED <<x11vars, thrvars, matchvars, winvars, fnvars, clockvars>>

\* Capturer::new (capturer.rs:100-107), in either build.
InitCapturer ==
    /\ IdleX11
    /\ overflow_checks \in BOOLEAN
    /\ config \in CapturerConfigs
    /\ cached_resolution = <<>>
    /\ resolution = [width |-> 2, height |-> 2]
    /\ cap_status = "ready"
    /\ trace = <<>>
    /\ IdleThreaded
    /\ IdleMatcher
    /\ IdleWin
    /\ IdleFn
    /\ IdleClock

NextCapturer ==
    \/ \E prep \in StepResults, cap \in StepResults, img \in StepResults :
           CapturerCapture(prep, cap, img)
    \/ \E c \in CapturerConfigs : CapturerSetConfig(c)
    \/ \E r \in Resolutions : ResolutionChange(r)

SpecCapturer == InitCapturer /\ [][NextCapturer]_vars

(***************************************************************************)
(* Claims about the Capturer, checked under SpecCapturer.                  *)
(***************************************************************************)
Captures == {i \in 1..Len(trace) : trace[i].ev = "capture"}

\* No resolution was cached, or the backend's resolution differed from it.
Need(e) == e.cached = <<>> \/ e.cached[1] # e.cur

PrepareCalls(e) == {k \in 1..Len(e.calls) : e.calls[k].fn = "prepare_capture"}

\* The arguments of prepare_capture for the matcher's result.
MatcherArgs(cfg, cur) ==
    LET m == get_config(cur.width, cur.height, cfg.capture, overflow_checks).spec
    IN  <<m.display, m.x, m.y, m.width, m.height>>

PreparedOk(e) == PrepareCalls(e) = {1} /\ e.calls[1].ret = "Ok"

C9_SetConfigForcesPrepare ==
    /\ (trace # <<>> /\ trace[Len(trace)].ev = "set_config") =>
           /\ config = trace[Len(trace)].cfg
           /\ cached_resolution = <<>>
    /\ \A i \in Captures :
           (i > 1 /\ trace[i - 1].ev = "set_config") =>
               /\ trace[i].cfg = trace[i - 1].cfg
               /\ PrepareCalls(trace[i]) = {1}
               /\ trace[i].calls[1].args = MatcherArgs(trace[i - 1].cfg, trace[i].cur)

\* The backend calls of a capture() that returned an error.
Failing(e) == {k \in 1..Len(e.calls) : e.calls[k].ret # "Ok"}

\* C10: capture() calls capture_image and then image; when prepare,
\* capture_image or image returns an error, no later call is made and capture()
\* returns that error, never a panic or another error.
C10_ErrorsPropagate ==
    \A i \in Captures :
        LET e == trace[i]
        IN  /\ \A k \in 1..Len(e.calls) :
                   e.calls[k].fn = "image" =>
                       k > 1 /\ e.calls[k - 1].fn = "capture_image"
            /\ \A k \in Failing(e) : k = Len(e.calls) /\ e.result = e.calls[k].ret

(***************************************************************************)
(* Claims about the shared-memory backend, checked under SpecX11.          *)
(***************************************************************************)
Accessors == 1..Len(accessors)

\* The backend calls made after accessor a was handed out, up to call n.
CallsAfter(a, n) == {hist[i].op : i \in (accessors[a].born + 1)..n}

\* C1: once capture_image() has been called after an accessor was obtained
\* from image(), every read operation on that accessor (width, height, pixel,
\* data, to_rgba, to_rgb) fails with the invalidated-access condition; this
\* holds for the reads that can be made now and for the read that was made.
C1_StaleReadsFail ==
    /\ \A a \in Accessors :
           "capture_image" \in CallsAfter(a, Len(hist)) =>
               \A op \in ReadOps : ReadOutcomes(a, op) = {"InvalidatedAccess"}
    /\ (lastRead.op # "none"
            /\ "capture_image" \in CallsAfter(lastRead.acc, lastRead.at)) =>
           lastRead.outcome = "InvalidatedAccess"

\* C1 witness: an accessor was read after a later capture_image() and the read
\* failed with the invalidated-access condition.
C1_Witness ==
    /\ lastRead.op = "to_rgba"
    /\ "capture_image" \in CallsAfter(lastRead.acc, lastRead.at)
    /\ lastRead.outcome = "InvalidatedAccess"

\* Accessor a was obtained from image() after a capture_image() call and no
\* capture_image() has been called since.
FromLatestCapture(a) ==
    /\ \E i \in 1..accessors[a].born : hist[i].op = "capture_image"
    /\ "capture_image" \notin CallsAfter(a, Len(hist))

ThreadedConfigs == {c \in Configs : c.capture = <<>>}

\* What a call of the worker's backend returns.
ThreadedResults == {"Ok", "LostCaptureError"}

\* The callbacks a caller installs; 0 is the no-op the worker starts with.
Callbacks == {1}

Entry(kind, n, cb, info) == [kind |-> kind, n |-> n, cb |-> cb, info |-> info]

\* The worker's closure has returned or unwound: its receivers are dropped
\* and with them the messages still in flight.
WorkerGone == wpc \in {"done", "panicked"}

Ends(pc) ==
    /\ wpc' = pc
    /\ chan_config' = <<>>
    /\ chan_pre' = <<>>
    /\ chan_post' = <<>>

\* Receiver::try_iter and Receiver::recv_timeout (capturer.rs:270, 277, 280,
\* 287) hand over the oldest message in flight.
Received_newest(chan) == chan[Len(chan)]
Received(chan) == Head(chan)

\* capturer.rs:257-266: Capturer::new(config_initial).unwrap(); built: the
\* backend could be constructed.
WorkerStart(built) ==
    /\ wpc = "spawned"
    /\ IF built
       THEN wpc' = "loop" /\ UNCHANGED <<chan_config, chan_pre, chan_post>>
       ELSE Ends("panicked")
    /\ UNCHANGED <<running, owner, counter, pre_callback, post_callback, mirror,
                   latest, latest_lock, w_img, w_info, log, w_effect, lastSeen,
                   stopped_starts>>
    /\ UNCHANGED <<x11vars, capvars, matchvars, winvars, fnvars, clockvars>>

\* A worker that never looks at the running flag.
WorkerLoop_ignore_running ==
    /\ wpc = "loop"
    /\ wpc' = "drain_config"
    /\ UNCHANGED <<chan_config, chan_pre, chan_post>>
    /\ UNCHANGED <<running, owner, counter, pre_callback, post_callback, mirror,
                   latest, latest_lock, w_img, w_info, log, w_effect, lastSeen,
                   stopped_starts>>
    /\ UNCHANGED <<x11vars, capvars, matchvars, winvars, fnvars, clockvars>>

\* capturer.rs:268: while running_t.load(Relaxed)
WorkerLoop ==
    /\ wpc = "loop"
    /\ IF running
       THEN wpc' = "drain_config" /\ UNCHANGED <<chan_config, chan_pre, chan_post>>
       ELSE Ends("done")
    /\ UNCHANGED <<running, owner, counter, pre_callback, post_callback, mirror,
                   latest, latest_lock, w_img, w_info, log, w_effect, lastSeen,
                   stopped_starts>>
    /\ UNCHANGED <<x11vars, capvars, matchvars, winvars, fnvars, clockvars>>

\* capturer.rs:270-276: one turn of `for new_config in try_iter()': the next
\* message is applied to the Capturer and copied to the mirror, or the
\* channel is empty and the loop ends.
WorkerDrainConfig ==
    /\ wpc = "drain_config"
    /\ IF chan_config # <<>>
       THEN /\ config' = set_config(Received(chan_config)).config
            /\ cached_resolution' = set_config(Received(chan_config)).cached
            /\ mirror' = Received(chan_config)
            /\ chan_config' = Tail(chan_config)
            /\ wpc' = "drain_config"
       ELSE /\ wpc' = "drain_pre"
            /\ UNCHANGED <<config, cached_resolution, mirror, chan_config>>
    /\ UNCHANGED <<running, owner, counter, pre_callback, post_callback,
                   chan_pre, chan_post, latest, latest_lock, w_img, w_info, log,
                   w_effect, lastSeen, stopped_starts>>
    /\ UNCHANGED <<x11vars, matchvars, winvars, fnvars, clockvars, overflow_checks, resolution, cap_status,
                   trace>>

\* capturer.rs:277-279
WorkerDrainPre ==
    /\ wpc = "drain_pre"
    /\ IF chan_pre # <<>>
       THEN /\ pre_callback' = Received(chan_pre)
            /\ chan_pre' = Tail(chan_pre)
            /\ wpc' = "drain_pre"
       ELSE /\ wpc' = "drain_post"
            /\ UNCHANGED <<pre_callback, chan_pre>>
    /\ UNCHANGED <<running, owner, counter, post_callback, chan_config,
                   chan_post, mirror, latest, latest_lock, w_img, w_info, log,
                   w_effect, lastSeen, stopped_starts>>
    /\ UNCHANGED <<x11vars, capvars, matchvars, winvars, fnvars, clockvars>>

\* capturer.rs:280-282
WorkerDrainPost ==
    /\ wpc = "drain_post"
    /\ IF chan_post # <<>>
       THEN /\ post_callback' = Received(chan_post)
            /\ chan_post' = Tail(chan_post)
            /\ wpc' = "drain_post"
       ELSE /\ wpc' = "rate"
            /\ UNCHANGED <<post_callback, chan_post>>
    /\ UNCHANGED <<running, owner, counter, pre_callback, chan_config, chan_pre,
                   mirror, latest, latest_lock, w_img, w_info, log, w_effect,
                   lastSeen, stopped_starts>>
    /\ UNCHANGED <<x11vars, capvars, matchvars, winvars, fnvars, clockvars>>

\* capturer.rs:284
rate_valid_nonnegative(cfg) == cfg.rate >= 0
rate_valid(cfg) == cfg.rate > 0

\* capturer.rs:284-285
WorkerRate ==
    /\ wpc = "rate"
    /\ wpc' = IF rate_valid(config) THEN "schedule" ELSE "recv"
    /\ UNCHANGED <<running, owner, counter, pre_callback, post_callback,
                   chan_config, chan_pre, chan_post, mirror, latest, latest_lock,
                   w_img, w_info, log, w_effect, lastSeen, stopped_starts>>
    /\ UNCHANGED <<x11vars, capvars, matchvars, winvars, fnvars, clockvars>>

\* capturer.rs:287-295: recv_timeout(100 ms) hands over a message, which is
\* applied, or times out on an empty channel; then `continue'.
WorkerRecv ==
    /\ wpc = "recv"
    /\ IF chan_config # <<>>
       THEN /\ config' = set_config(Received(chan_config)).config
            /\ cached_resolution' = set_config(Received(chan_config)).cached
            /\ mirror' = Received(chan_config)
            /\ chan_config' = Tail(chan_config)
       ELSE UNCHANGED <<config, cached_resolution, mirror, chan_config>>
    /\ wpc' = "loop"
    /\ UNCHANGED <<running, owner, counter, pre_callback, post_callback,
                   chan_pre, chan_post, latest, latest_lock, w_img, w_info, log,
                   w_effect, lastSeen, stopped_starts>>
    /\ UNCHANGED <<x11vars, matchvars, winvars, fnvars, clockvars, overflow_checks, resolution, cap_status,
                   trace>>

\* The next attempt stays within the run's bound.
MayAttempt == counter < MaxCounter

\* capturer.rs:299-316: the start time of the next attempt is reached (due),
\* or the worker goes to sleep for at most 100 ms.
WorkerSchedule(due) ==
    /\ wpc = "schedule"
    /\ due => MayAttempt
    /\ wpc' = IF due THEN "pre" ELSE "sleep"
    /\ UNCHANGED <<running, owner, counter, pre_callback, post_callback,
                   chan_config, chan_pre, chan_post, mirror, latest, latest_lock,
                   w_img, w_info, log, w_effect, lastSeen, stopped_starts>>
    /\ UNCHANGED <<x11vars, capvars, matchvars, winvars, fnvars, clockvars>>

\* capturer.rs:316-320: the sleep is over; the start time is reached by now
\* (due), or the worker has to wait more and goes round the loop.
WorkerSleep(due) ==
    /\ wpc = "sleep"
    /\ due => MayAttempt
    /\ wpc' = IF due THEN "pre" ELSE "loop"
    /\ UNCHANGED <<running, owner, counter, pre_callback, post_callback,
                   chan_config, chan_pre, chan_post, mirror, latest, latest_lock,
                   w_img, w_info, log, w_effect, lastSeen, stopped_starts>>
    /\ UNCHANGED <<x11vars, capvars, matchvars, winvars, fnvars, clockvars>>

\* capturer.rs:323
NextCounter_skip(c) == c + 2
NextCounter(c) == c + 1

\* capturer.rs:323-325: counter += 1; (pre_callback)(this_counter)
WorkerPre ==
    /\ wpc = "pre"
    /\ counter' = NextCounter(counter)
    /\ log' = Append(log, Entry("pre", counter', pre_callback, DefaultCaptureInfo))
    /\ stopped_starts' = IF running THEN stopped_starts ELSE stopped_starts + 1
    /\ wpc' = "capture"
    /\ UNCHANGED <<running, owner, pre_callback, post_callback, chan_config,
                   chan_pre, chan_post, mirror, latest, latest_lock, w_img,
                   w_info, w_effect, lastSeen>>
    /\ UNCHANGED <<x11vars, capvars, matchvars, winvars, fnvars, clockvars>>

\* capturer.rs:326-329: capturer.capture() and the conversion to an owned
\* image. A panic in capture() unwinds the worker's closure. The log keeps
\* what attempt n produced: its result, and its time and duration, which the
\* model stands for by n.
WorkerCapture(prep, cap, img) ==
    /\ wpc = "capture"
    /\ LET e == capture(config, cached_resolution, resolution, overflow_checks,
                        prep, cap, img)
       IN  /\ cached_resolution' = e.cached
           /\ w_effect' = e
           /\ w_img' = e.result
           /\ IF e.result = "Panic"
              THEN Ends("panicked")
              ELSE wpc' = "lock" /\ UNCHANGED <<chan_config, chan_pre, chan_post>>
    /\ log' = Append(log, Entry("capture", counter, 0,
                                CaptureInfo(w_img', counter, counter, counter)))
    /\ UNCHANGED <<running, owner, counter, pre_callback, post_callback, mirror,
                   latest, latest_lock, w_info, lastSeen, stopped_starts>>
    /\ UNCHANGED <<x11vars, matchvars, winvars, fnvars, clockvars, overflow_checks, config, resolution,
                   cap_status, trace>>

\* capturer.rs:332: latest.lock()
WorkerLock ==
    /\ wpc = "lock"
    /\ latest_lock = "free"
    /\ latest_lock' = "worker"
    /\ wpc' = "store"
    /\ UNCHANGED <<running, owner, counter, pre_callback, post_callback,
                   chan_config, chan_pre, chan_post, mirror, latest, w_img,
                   w_info, log, w_effect, lastSeen, stopped_starts>>
    /\ UNCHANGED <<x11vars, capvars, matchvars, winvars, fnvars, clockvars>>

\* capturer.rs:337-342: the CaptureInfo of this attempt.
BuildInfo_keep_counter(img, capture_time, duration, this_counter) ==
    CaptureInfo(img, capture_time, duration, latest.counter)
BuildInfo(img, capture_time, duration, this_counter) ==
    CaptureInfo(img, capture_time, duration, this_counter)

\* capturer.rs:331-345: the guard `locked' lives in the block that builds the
\* info; at the end of the block it is dropped, which unlocks the mutex. The
\* value is who holds the mutex afterwards.
MutexGuard_leak(holder) == holder
MutexGuard_drop(holder) == "free"

\* capturer.rs:336-345: build the info, store a clone, release the lock.
WorkerStore ==
    /\ wpc = "store"
    /\ w_info' = BuildInfo(w_img, counter, counter, counter)
    /\ latest' = w_info'
    /\ latest_lock' = MutexGuard_drop(latest_lock)
    /\ wpc' = "post"
    /\ UNCHANGED <<running, owner, counter, pre_callback, post_callback,
                   chan_config, chan_pre, chan_post, mirror, w_img, log,
                   w_effect, lastSeen, stopped_starts>>
    /\ UNCHANGED <<x11vars, capvars, matchvars, winvars, fnvars, clockvars>>

\* capturer.rs:346-350: (post_callback)(info); last_duration, last_end.
WorkerPost ==
    /\ wpc = "post"
    /\ log' = Append(log, Entry("post", w_info.counter, post_callback, w_info))
    /\ wpc' = "loop"
    /\ UNCHANGED <<running, owner, counter, pre_callback, post_callback,
                   chan_config, chan_pre, chan_post, mirror, latest, latest_lock,
                   w_img, w_info, w_effect, lastSeen, stopped_starts>>
    /\ UNCHANGED <<x11vars, capvars, matchvars, winvars, fnvars, clockvars>>

Worker ==
    \/ \E built \in BOOLEAN : WorkerStart(built)
    \/ WorkerLoop
    \/ WorkerDrainConfig
    \/ WorkerDrainPre
    \/ WorkerDrainPost
    \/ WorkerRate
    \/ WorkerRecv
    \/ \E due \in BOOLEAN : WorkerSchedule(due)
    \/ \E due \in BOOLEAN : WorkerSleep(due)
    \/ WorkerPre
    \/ \E prep \in ThreadedResults, cap \in ThreadedResults,
          img \in ThreadedResults :
           WorkerCapture(prep, cap, img)
    \/ WorkerLock
    \/ WorkerStore
    \/ WorkerPost

(***************************************************************************)
(* ThreadedCapturer: the calls of the owning and the reading threads.      *)
(***************************************************************************)
\* The channels have room for one more message within the run's bounds.
MaySend ==
    Len(chan_config) + Len(chan_pre) + Len(chan_post)
        < (IF counter = 0 THEN MaxEarly ELSE MaxQueue)

\* A send on a channel whose receiver is gone fails and the message is lost.
Send(chan, m) == IF WorkerGone THEN chan ELSE Append(chan, m)

\* `let _ = sender.send(m)` (capturer.rs:376, 381, 388): send returns Err
\* when the receiver is gone; the result is discarded and the caller goes on.
\* The value is the state of the calling thread after the call.
send_discarded_unwrap(gone) == IF gone THEN "panicked" ELSE "alive"
send_discarded(gone) == "alive"

\* ThreadedCapturer::set_config (capturer.rs:375-377)
ThreadedSetConfig(c) ==
    /\ owner = "alive"
    /\ MaySend
    /\ chan_config' = Send(chan_config, c)
    /\ owner' = send_discarded(WorkerGone)
    /\ UNCHANGED <<running, wpc, counter, pre_callback, post_callback,
                   chan_pre, chan_post, mirror, latest, latest_lock, w_img,
                   w_info, log, w_effect, lastSeen, stopped_starts>>
    /\ UNCHANGED <<x11vars, capvars, matchvars, winvars, fnvars, clockvars>>

\* ThreadedCapturer::set_pre_callback (capturer.rs:380-382)
ThreadedSetPreCallback(f) ==
    /\ owner = "alive"
    /\ MaySend
    /\ chan_pre' = Send(chan_pre, f)
    /\ owner' = send_discarded(WorkerGone)
    /\ UNCHANGED <<running, wpc, counter, pre_callback, post_callback,
                   chan_config, chan_post, mirror, latest, latest_lock, w_img,
                   w_info, log, w_effect, lastSeen, stopped_starts>>
    /\ UNCHANGED <<x11vars, capvars, matchvars, winvars, fnvars, clockvars>>

\* ThreadedCapturer::set_post_callback (capturer.rs:387-389)
ThreadedSetPostCallback(f) ==
    /\ owner = "alive"
    /\ MaySend
    /\ chan_post' = Send(chan_post, f)
    /\ owner' = send_discarded(WorkerGone)
    /\ UNCHANGED <<running, wpc, counter, pre_callback, post_callback,
                   chan_config, chan_pre, mirror, latest, latest_lock, w_img,
                   w_info, log, w_effect, lastSeen, stopped_starts>>
    /\ UNCHANGED <<x11vars, capvars, matchvars, winvars, fnvars, clockvars>>

\* ThreadedCapturer::latest (capturer.rs:398-401): lock, clone, unlock.
ThreadedLatest ==
    /\ owner = "alive"
    /\ latest_lock = "free"
    /\ lastSeen' = latest
    /\ UNCHANGED <<running, owner, wpc, counter, pre_callback, post_callback,
                   chan_config, chan_pre, chan_post, mirror, latest, latest_lock,
                   w_img, w_info, log, w_effect, stopped_starts>>
    /\ UNCHANGED <<x11vars, capvars, matchvars, winvars, fnvars, clockvars>>

\* Drop for ThreadedCapturer (capturer.rs:228-230): running.store(false)
ThreadedDrop ==
    /\ owner = "alive"
    /\ running' = FALSE
    /\ owner' = "joining"
    /\ UNCHANGED <<wpc, counter, pre_callback, post_callback, chan_config,
                   chan_pre, chan_post, mirror, latest, latest_lock, w_img,
                   w_info, log, w_effect, lastSeen, stopped_starts>>
    /\ UNCHANGED <<x11vars, capvars, matchvars, winvars, fnvars, clockvars>>

\* Drop for ThreadedCapturer (capturer.rs:231): join().expect(..) returns once
\* the worker has ended, and panics if the worker ended in a panic.
ThreadedJoin ==
    /\ owner = "joining"
    /\ WorkerGone
    /\ owner' = IF wpc = "done" THEN "dropped" ELSE "drop_panicked"
    /\ UNCHANGED <<running, wpc, counter, pre_callback, post_callback,
                   chan_config, chan_pre, chan_post, mirror, latest, latest_lock,
                   w_img, w_info, log, w_effect, lastSeen, stopped_starts>>
    /\ UNCHANGED <<x11vars, capvars, matchvars, winvars, fnvars, clockvars>>

\* ThreadedCapturer::new (capturer.rs:242-252, 363-371). No configuration of
\* ThreadedConfigs has a rule, so the matcher subtracts nothing and both
\* builds behave alike.
InitThreaded ==
    /\ IdleX11
    /\ overflow_checks = TRUE
    /\ config \in ThreadedConfigs
    /\ cached_resolution = <<>>
    /\ resolution = [width |-> 2, height |-> 2]
    /\ cap_status = "ready"
    /\ trace = <<>>
    /\ running = TRUE
    /\ owner = "alive"
    /\ wpc = "spawned"
    /\ counter = 0
    /\ pre_callback = 0
    /\ post_callback = 0
    /\ chan_config = <<>>
    /\ chan_pre = <<>>
    /\ chan_post = <<>>
    /\ mirror = config
    /\ latest = DefaultCaptureInfo
    /\ latest_lock = "free"
    /\ w_img = "none"
    /\ w_info = DefaultCaptureInfo
    /\ log = <<>>
    /\ w_effect = NoEffect
    /\ lastSeen = DefaultCaptureInfo
    /\ stopped_starts = 0
    /\ IdleMatcher
    /\ IdleWin
    /\ IdleFn
    /\ IdleClock

NextThreaded ==
    \/ Worker
    \/ \E c \in ThreadedConfigs : ThreadedSetConfig(c)
    \/ \E f \in Callbacks : ThreadedSetPreCallback(f)
    \/ \E f \in Callbacks : ThreadedSetPostCallback(f)
    \/ ThreadedLatest
    \/ ThreadedDrop
    \/ ThreadedJoin

SpecThreaded == InitThreaded /\ [][NextThreaded]_vars

\* The worker is a thread of its own: the scheduler keeps running it, and
\* each of its steps ends (a sleep and a recv_timeout within 100 ms); the
\* thread in drop() stays in join() until the worker has ended.
SpecThreadedFair ==
    InitThreaded /\ [][NextThreaded]_vars /\ WF_vars(Worker) /\ WF_vars(ThreadedJoin)

\* A drain takes the last message in flight (capturer.rs:270, 277, 280).
DrainCatchesUp ==
    \/ WorkerDrainConfig /\ Len(chan_config) = 1
    \/ WorkerDrainPre /\ Len(chan_pre) = 1
    \/ WorkerDrainPost /\ Len(chan_post) = 1

\* A drain finds its channel empty and ends.
DrainEnds ==
    \/ WorkerDrainConfig /\ chan_config = <<>>
    \/ WorkerDrainPre /\ chan_pre = <<>>
    \/ WorkerDrainPost /\ chan_post = <<>>

\* The senders do not for ever send faster than the worker receives, so each
\* drain catches up and ends; and the clock goes on while the worker goes
\* round its loop, so of its looks at the clock (capturer.rs:309, 318) one
\* finds the start time passed.
SpecThreadedTimely ==
    /\ SpecThreadedFair
    /\ SF_vars(DrainCatchesUp)
    /\ SF_vars(DrainEnds)
    /\ SF_vars(WorkerSchedule(TRUE) \/ WorkerSleep(TRUE))

(***************************************************************************)
(* Claims about the ThreadedCapturer.                                      *)
(***************************************************************************)
\* The attempts whose capture() has been made, by their place in the log.
Attempted == {i \in 1..Len(log) : log[i].kind = "capture"}

\* C3: a capture attempt in which prepare, capture_image or image fails never
\* ends the worker: the worker stores a CaptureInfo whose result is that
\* error and calls the post-capture callback with it.
C3_FailuresRecorded ==
    (w_effect # NoEffect /\ Failing(w_effect) # {}) =>
        /\ wpc # "panicked"
        /\ wpc = "post" =>
               latest.result = w_effect.calls[Len(w_effect.calls)].ret

AttemptKinds == <<"pre", "capture", "post">>

\* C4: the callbacks and captures of a run happen in the order pre(1),
\* capture 1, post(1), pre(2), capture 2, post(2), ...: the pre-capture
\* callback gets 1, 2, 3, ... once each, the post-capture callback gets the
\* record with the same counter, also after a failed capture, and the counter
\* of the worker is the number of attempts started.
C4_SequentialAttempts ==
    /\ \A i \in 1..Len(log) :
           /\ log[i].kind = AttemptKinds[((i - 1) % 3) + 1]
           /\ log[i].n = ((i - 1) \div 3) + 1
           /\ log[i].kind = "post" =>
                  /\ log[i].info.counter = log[i].n
                  /\ log[i].info = log[i - 1].info
    /\ counter = (Len(log) + 2) \div 3

\* C4: a failed first attempt got its post-capture callback and the second
\* attempt has run to its end.
C4_Witness ==
    /\ Len(log) = 6
    /\ log[3].info.result = "LostCaptureError"
    /\ log[6].info.result = "Ok"

\* A record is the complete record of an attempt whose capture was made.
RecordOfAttempt(info) == \E i \in Attempted : log[i].info = info

\* C5: latest() returns the default record or the complete record of one
\* finished attempt; the counters of successive latest() results never
\* decrease; and while the post-capture callback of attempt n runs the slot
\* holds the record of attempt n.
C5_LatestComplete ==
    /\ [](/\ lastSeen = DefaultCaptureInfo \/ RecordOfAttempt(lastSeen)
          /\ latest = DefaultCaptureInfo \/ RecordOfAttempt(latest)
          /\ wpc = "post" =>
                 /\ latest.counter = counter
                 /\ latest = log[Len(log)].info)
    /\ [][lastSeen'.counter >= lastSeen.counter]_vars

\* C5: a reader got the record of attempt 1 while attempt 2 was between its
\* capture and its store.
C5_Witness ==
    /\ lastSeen.counter = 1
    /\ counter = 2
    /\ wpc = "lock"

\* C6: while the configuration the worker has applied has a rate of zero or
\* less, no step advances the counter, calls a callback, makes a capture or
\* stores a record.
C6_NoCaptureWithoutRate ==
    [][config.rate <= 0 =>
           counter' = counter /\ log' = log /\ latest' = latest]_vars

\* C6: after an attempt the worker applied a negative rate and waits for the
\* next configuration.
C6_Witness ==
    /\ counter >= 1
    /\ config.rate < 0
    /\ mirror = config
    /\ wpc = "recv"

\* C7: once the running flag is false the worker starts at most one more
\* attempt and then ends, whatever the rate, and the join in drop returns.
C7_DropTerminates ==
    /\ [](stopped_starts <= 1)
    /\ (~running) ~> WorkerGone
    /\ (owner = "joining") ~> (owner \in {"dropped", "drop_panicked"})

\* C7: the drop came when an attempt was about to start; the attempt was
\* made, the worker ended and the join returned.
C7_Witness ==
    /\ stopped_starts = 1
    /\ owner = "dropped"
    /\ config.rate > 0

(***************************************************************************)
(* CaptureSpecification::get_config called on its own.                     *)
(***************************************************************************)
\* The match predicates of the rules given to the matcher.
MatcherPredicates == {<<>>, <<2>>} \X {<<>>, <<3>>}

\* The regions <<x, y, width, height, display>> of the rules given to the
\* matcher: to be resolved, explicit, larger than the display, and with an
\* offset beyond the display.
MatcherRegions ==
    { <<0, 0, 0, 0, 0>>, <<1, 1, 0, 0, 1>>, <<1, 0, 1, 1, 0>>,
      <<0, 1, 5, 0, 1>>, <<3, 0, 0, 0, 0>>, <<0, 4, 0, 2, 1>> }

MatcherRules ==
    { Rule(p[1], p[2], r[1], r[2], r[3], r[4], r[5]) :
          p \in MatcherPredicates, r \in MatcherRegions }

RECURSIVE ListsUpTo(_, _)
ListsUpTo(S, n) ==
    IF n = 0 THEN {<<>>}
    ELSE LET shorter == ListsUpTo(S, n - 1)
         IN  shorter \cup {Append(l, e) : l \in shorter, e \in S}

\* The resolutions given to the matcher.
MatcherResolutions == [width : {2, 3}, height : {2, 3}]

\* get_config(width, height, specs) runs to its end: it returns, or it
\* unwinds with a panic. It borrows specs and leaves them as they are.
MatcherCall ==
    /\ m_ret = <<>>
    /\ m_ret' = <<get_config(m_args.width, m_args.height, m_args.specs,
                             overflow_checks)>>
    /\ m_args' = m_args
    /\ UNCHANGED <<x11vars, capvars, thrvars, winvars, fnvars, clockvars>>

\* A call of get_config with any arguments, in either build.
InitMatcher ==
    /\ IdleX11
    /\ overflow_checks \in BOOLEAN
    /\ config = [capture |-> <<>>, rate |-> 0]
    /\ cached_resolution = <<>>
    /\ resolution = [width |-> 2, height |-> 2]
    /\ cap_status = "ready"
    /\ trace = <<>>
    /\ IdleThreaded
    /\ \E r \in MatcherResolutions, l \in ListsUpTo(MatcherRules, MaxRules) :
           m_args = [width |-> r.width, height |-> r.height, specs |-> l]
    /\ m_ret = <<>>
    /\ IdleWin
    /\ IdleFn
    /\ IdleClock

NextMatcher == MatcherCall

SpecMatcher == InitMatcher /\ [][NextMatcher]_vars

(***************************************************************************)
(* Claims about the matcher, checked under SpecMatcher.                    *)
(***************************************************************************)
\* Every populated predicate of the rule equals the resolution.
Applies(rule) ==
    /\ rule.match_width # <<>> => rule.match_width[1] = m_args.width
    /\ rule.match_height # <<>> => rule.match_height[1] = m_args.height

\* The places of the rules that apply, and the first of them.
Applying == {i \in 1..Len(m_args.specs) : Applies(m_args.specs[i])}
FirstApplying == CHOOSE i \in Applying : \A j \in Applying : i <= j

Returned == m_ret # <<>>

\* C11: the result is that of the first rule in list order whose populated
\* predicates all equal the resolution: it has that rule's offset, display
\* and predicates, and it is the result for the list cut off after that rule
\* and for that rule alone.
C11_FirstMatchWins ==
    (Returned /\ Applying # {}) =>
        LET k == FirstApplying
            rule == m_args.specs[k]
            W == m_args.width
            H == m_args.height
        IN  /\ m_ret[1] = get_config(W, H, SubSeq(m_args.specs, 1, k),
                                     overflow_checks)
            /\ m_ret[1] = get_config(W, H, <<rule>>, overflow_checks)
            /\ ~m_ret[1].panic =>
                   /\ m_ret[1].spec.x = rule.x
                   /\ m_ret[1].spec.y = rule.y
                   /\ m_ret[1].spec.display = rule.display
                   /\ m_ret[1].spec.match_width = rule.match_width
                   /\ m_ret[1].spec.match_height = rule.match_height

\* C11: the first rule of two does not apply, the second one does, and the
\* result has the offset of the second.
C11_Witness ==
    /\ Returned
    /\ Len(m_args.specs) = 2
    /\ ~Applies(m_args.specs[1])
    /\ Applies(m_args.specs[2])
    /\ m_args.specs[1].x # m_args.specs[2].x
    /\ ~m_ret[1].panic
    /\ m_ret[1].spec.x = m_args.specs[2].x

\* C12: for the first matching rule the result is a copy of the rule with a
\* width of 0 replaced by W - x and a height of 0 by H - y, everything else
\* as in the rule, and the list is as it was.
C12_PopulatedCopy ==
    (Returned /\ Applying # {}) =>
        LET rule == m_args.specs[FirstApplying]
        IN  /\ ~m_ret[1].panic
            /\ m_ret[1].spec =
                   [rule EXCEPT
                      !.width = IF rule.width = 0
                                THEN m_args.width - rule.x ELSE rule.width,
                      !.height = IF rule.height = 0
                                 THEN m_args.height - rule.y ELSE rule.height]

\* C13: when no rule applies the result is x = 0, y = 0, width = W,
\* height = H, display = 0 with both predicates unset.
C13_DefaultWhenNoMatch ==
    (Returned /\ Applying = {}) =>
        /\ ~m_ret[1].panic
        /\ m_ret[1].spec =
               [match_width |-> <<>>, match_height |-> <<>>, x |-> 0, y |-> 0,
                width |-> m_args.width, height |-> m_args.height,
                display |-> 0]

\* C13: a list of two rules of which none applies.
C13_Witness ==
    /\ Returned
    /\ Len(m_args.specs) = 2
    /\ Applying = {}
    /\ m_ret[1].spec.width = m_args.width

\* C14: the result has width <= W - x and height <= H - y, and has the
\* rule's width and height where the rule gave a non-zero one.
C14_WithinDisplay ==
    Returned =>
        /\ ~m_ret[1].panic
        /\ m_ret[1].spec.width <= m_args.width - m_ret[1].spec.x
        /\ m_ret[1].spec.height <= m_args.height - m_ret[1].spec.y
        /\ Applying # {} =>
               LET rule == m_args.specs[FirstApplying]
               IN  /\ rule.width # 0 => m_ret[1].spec.width = rule.width
                   /\ rule.height # 0 => m_ret[1].spec.height = rule.height

\* C15: get_config returns for all arguments, without a panic and without
\* an underflow of W - x or H - y.
C15_MatcherNeverFails ==
    (Returned /\ Applying # {}) =>
        LET rule == m_args.specs[FirstApplying]
        IN  /\ ~m_ret[1].panic
            /\ rule.width = 0 => rule.x <= m_args.width
            /\ rule.height = 0 => rule.y <= m_args.height

(***************************************************************************)
(* More claims about the shared-memory backend, checked under SpecX11.     *)
(***************************************************************************)
\* C16: after the backend is dropped every read on every accessor obtained
\* from it fails with the invalidated-access condition: the reads that can be
\* made now, and the read that was made after the drop.
C16_DropInvalidates ==
    x11_state # "live" =>
        /\ \A a \in Accessors :
               \A op \in ReadOps : ReadOutcomes(a, op) = {"InvalidatedAccess"}
        /\ (lastRead.op # "none" /\ lastRead.at = Len(hist)) =>
               lastRead.outcome = "InvalidatedAccess"

\* The calls of prepare made after accessor a was handed out, up to call n.
PreparesAfter(a, n) ==
    {i \in (accessors[a].born + 1)..n : hist[i].op = "prepare"}

\* C17: once prepare has been called after an accessor was handed out, with
\* or without success, every read on that accessor fails with the
\* invalidated-access condition.
C17_PrepareInvalidates ==
    /\ \A a \in Accessors :
           PreparesAfter(a, Len(hist)) # {} =>
               \A op \in ReadOps : ReadOutcomes(a, op) = {"InvalidatedAccess"}
    /\ (lastRead.op # "none"
            /\ PreparesAfter(lastRead.acc, lastRead.at) # {}) =>
           lastRead.outcome = "InvalidatedAccess"

\* C17: the only call made since the accessor was handed out is a prepare
\* that returned an error, and a read of the accessor failed.
C17_Witness ==
    /\ lastRead.op = "pixel"
    /\ lastRead.at = accessors[lastRead.acc].born + 1
    /\ hist[lastRead.at].op = "prepare"
    /\ ~hist[lastRead.at].ok
    /\ lastRead.outcome = "InvalidatedAccess"

\* Call i was made before any call of op had succeeded.
NoneBefore(op, i) == \A j \in 1..(i - 1) : ~(hist[j].op = op /\ hist[j].ok)

\* C18: on a backend that was prepared and on which no capture_image() has
\* succeeded, image() returns an error and no accessor.
C18_NoImageBeforeCapture ==
    \A i \in 1..Len(hist) :
        (/\ hist[i].op = "image"
         /\ ~NoneBefore("prepare", i)
         /\ NoneBefore("capture_image", i)) => ~hist[i].ok

\* C19: after a prepare that succeeded the stored offset and the size of the allocated image
\* lie within the display, and a requested width or height of 0 gives the
\* rest of the display from the offset.
C19_RegionWithinDisplay ==
    (x11_image # 0 /\ ximages[x11_image].attached) =>
        LET img == ximages[x11_image]
        IN  /\ pos_x + img.width <= DisplayW
            /\ pos_y + img.height <= DisplayH
            /\ img.asked[1] = 0 => img.width = DisplayW - pos_x
            /\ img.asked[2] = 0 => img.height = DisplayH - pos_y

RowPads == {0, 4}

\* What AcquireNextFrame returns (windows.rs:488-545): a frame, or one of the
\* error codes the code tells apart, E_FAIL standing for every other code.
AcquireErrors ==
    {"DXGI_ERROR_ACCESS_LOST", "DXGI_ERROR_INVALID_CALL",
     "DXGI_ERROR_WAIT_TIMEOUT", "D2DERR_INVALID_CALL", "E_FAIL"}

\* A duplicator delivers frames while the display is in the mode it was
\* created for; after a mode change it only reports errors (windows.rs:505).
AcquireNextFrame ==
    IF win_duplicator = <<win_mode>> THEN AcquireErrors \cup {"Frame"}
    ELSE AcquireErrors

WinCall(op, res, val) == [op |-> op, res |-> res, val |-> val, mode |-> win_mode]

\* A panic unwinds out of the backend; no further call is made on it.
WinCanCall ==
    /\ Len(win_hist) < MaxOps
    /\ \A i \in 1..Len(win_hist) : win_hist[i].res # "Panic"

WinReturn(op, res) == win_hist' = Append(win_hist, WinCall(op, res, <<>>))

\* The return of a capture that called AcquireNextFrame and got acq.
WinAcquired(acq, res) ==
    win_hist' = Append(win_hist, WinCall("capture_image", res, <<acq>>))

\* CaptureWin::prepare (windows.rs:461-472): init_output (360-396), then
\* init_duplicator (398-452). found: EnumOutputs has the desired display;
\* dup_ok: DuplicateOutput succeeded. self.image is not touched.
CaptureWin_prepare(found, dup_ok) ==
    /\ WinCanCall
    /\ IF ~found
       THEN /\ WinReturn("prepare", "InitialisationError")
            /\ UNCHANGED <<win_output, win_duplicator>>
       ELSE /\ win_output' = TRUE
            /\ win_duplicator' = IF dup_ok THEN <<win_mode>> ELSE <<>>
            /\ WinReturn("prepare", IF dup_ok THEN "Ok" ELSE "LogicError")
    /\ UNCHANGED <<win_image, win_textures, win_accessors, win_mode, win_read>>
    /\ UNCHANGED <<x11vars, capvars, thrvars, matchvars, fnvars, clockvars>>

\* The DXGI_ERROR_WAIT_TIMEOUT branch of capture (windows.rs:522-531).
on_wait_timeout_ok(has_image) == "Ok"
on_wait_timeout(has_image) == IF has_image THEN "Ok" ELSE "TransientError"

\* The result of capture for an error code of AcquireNextFrame
\* (windows.rs:500-545).
on_acquire_error(code, has_image) ==
    CASE code = "DXGI_ERROR_ACCESS_LOST"  -> "LostCaptureError"
      [] code = "DXGI_ERROR_INVALID_CALL" -> "LostCaptureError"
      [] code = "DXGI_ERROR_WAIT_TIMEOUT" -> on_wait_timeout(has_image)
      [] code = "D2DERR_INVALID_CALL"     -> "LostCaptureError"
      [] OTHER                            -> "LogicError"

\* CaptureWin::capture (windows.rs:474-604), the capture_image of this
\* backend. acq: what AcquireNextFrame returns; create_ok: CreateTexture2D
\* succeeded. The frame acquired by the n-th call has content n.
CaptureWin_capture(acq, create_ok) ==
    /\ WinCanCall
    /\ IF win_duplicator = <<>>
       THEN /\ WinReturn("capture_image", "LogicError")
            /\ UNCHANGED <<win_image, win_textures>>
       ELSE IF acq # "Frame"
       THEN /\ acq \in AcquireNextFrame
            /\ WinAcquired(acq, on_acquire_error(acq, win_image # 0))
            /\ UNCHANGED <<win_image, win_textures>>
       ELSE LET fresh == \/ win_image = 0
                         \/ win_textures[win_image].width # win_mode.width
                         \/ win_textures[win_image].height # win_mode.height
                made  == Append(win_textures,
                                [width |-> win_mode.width,
                                 height |-> win_mode.height, frame |-> 0])
                texs  == IF fresh THEN made ELSE win_textures
                img   == IF fresh THEN Len(made) ELSE win_image
            IN  /\ acq \in AcquireNextFrame
                /\ IF fresh /\ ~create_ok
                   THEN /\ WinAcquired(acq, "LostCaptureError")
                        /\ UNCHANGED <<win_image, win_textures>>
                   ELSE /\ win_image' = img
                        /\ win_textures' =
                               [texs EXCEPT ![img].frame = Len(win_hist) + 1]
                        /\ WinAcquired(acq, "Ok")
    /\ UNCHANGED <<win_output, win_duplicator, win_accessors, win_mode,
                   win_read>>
    /\ UNCHANGED <<x11vars, capvars, thrvars, matchvars, fnvars, clockvars>>

\* CaptureWin::image (windows.rs:606-650) and ImageWin::new (71-110).
\* create_ok: CreateTexture2D succeeded; map_ok: Map succeeded (ImageWin::new
\* panics otherwise); pad: the row padding Map reports for the new texture.
CaptureWin_image(create_ok, map_ok, pad) ==
    /\ WinCanCall
    /\ IF win_image = 0
       THEN /\ WinReturn("image", "LogicError")
            /\ UNCHANGED <<win_textures, win_accessors>>
       ELSE IF ~create_ok
       THEN /\ WinReturn("image", "LostCaptureError")
            /\ UNCHANGED <<win_textures, win_accessors>>
       ELSE /\ win_textures' = Append(win_textures, win_textures[win_image])
            /\ IF map_ok
               THEN /\ win_accessors' =
                           Append(win_accessors,
                                  [image |-> Len(win_textures'),
                                   width |-> win_textures[win_image].width,
                                   height |-> win_textures[win_image].height,
                                   RowPitch |->
                                       4 * win_textures[win_image].width + pad])
                    /\ WinReturn("image", "Ok")
               ELSE /\ WinReturn("image", "Panic")
                    /\ UNCHANGED win_accessors
    /\ UNCHANGED <<win_output, win_duplicator, win_image, win_mode, win_read>>
    /\ UNCHANGED <<x11vars, capvars, thrvars, matchvars, fnvars, clockvars>>

\* CaptureWin::resolution (windows.rs:665-670).
CaptureWin_resolution ==
    /\ WinCanCall
    /\ win_hist' = Append(win_hist, WinCall("resolution", "Ok", <<0, 0>>))
    /\ UNCHANGED <<win_output, win_duplicator, win_image, win_textures,
                   win_accessors, win_mode, win_read>>
    /\ UNCHANGED <<x11vars, capvars, thrvars, matchvars, fnvars, clockvars>>

\* The display changes its mode.
WinModeChange(m) ==
    /\ m # win_mode
    /\ win_mode' = m
    /\ UNCHANGED <<win_output, win_duplicator, win_image, win_textures,
                   win_accessors, win_hist, win_read>>
    /\ UNCHANGED <<x11vars, capvars, thrvars, matchvars, fnvars, clockvars>>

(***************************************************************************)
(* Reading pixels out of a mapped buffer.                                  *)
(***************************************************************************)
\* The outcomes of pixel(x, y): the pixel stored at some coordinate, a panic,
\* or what a read outside the stored pixels can give.
PixelAt(x, y) == [res |-> "Ok", x |-> x, y |-> y]
PixelPanic    == [res |-> "Panic", x |-> 0, y |-> 0]
PixelGarbage  == [res |-> "Garbage", x |-> 0, y |-> 0]
PixelCrash    == [res |-> "Crash", x |-> 0, y |-> 0]

\* The unchecked read of the 32-bit word at byte offset off of a buffer of h
\* rows of pitch bytes, each row starting with w pixels of 4 bytes: a stored
\* pixel, padding, or (past the end of the buffer) undefined behaviour.
ReadWord(off, pitch, w, h) ==
    IF off + 4 > pitch * h THEN {PixelGarbage, PixelCrash}
    ELSE IF off % 4 = 0 /\ (off % pitch) < 4 * w
    THEN {PixelAt((off % pitch) \div 4, off \div pitch)}
    ELSE {PixelGarbage}

\* ImageWin::pixel (windows.rs:121-150) on an image of w x h pixels mapped
\* with the given RowPitch.
ImageWin_pixel(w, h, RowPitch, x, y) ==
    IF x > w \/ y > h THEN {PixelPanic}
    ELSE LET stride == RowPitch \div w
         IN  ReadWord(y * RowPitch + x * stride, RowPitch, w, h)

\* ImageWin::data (windows.rs:152-165): its two assertions.
ImageWin_data(w, RowPitch) ==
    LET stride == RowPitch \div w
    IN  IF stride = 4 /\ RowPitch \div stride = w THEN "Ok" ELSE "Panic"

(***************************************************************************)
(* ImageWin: the accessor (windows.rs:22-27, 113-166).                     *)
(***************************************************************************)
WinReadOps == {"width", "height", "pixel", "data"}

WinAccessors == 1..Len(win_accessors)

\* The coordinates pixel() is read at in this specification: two corners.
WinCoords(a) ==
    {<<0, 0>>, <<win_accessors[a].width - 1, win_accessors[a].height - 1>>}

\* The outcomes of a read: [res, val], val being what the caller sees.
WinReadOutcomes(a, op, x, y) ==
    LET acc   == win_accessors[a]
        frame == win_textures[acc.image].frame
    IN  CASE op = "width"  -> {[res |-> "Ok", val |-> <<acc.width>>]}
          [] op = "height" -> {[res |-> "Ok", val |-> <<acc.height>>]}
          [] op = "pixel"  ->
                 {[res |-> p.res, val |-> <<frame, p.x, p.y>>] :
                      p \in ImageWin_pixel(acc.width, acc.height, acc.RowPitch,
                                           x, y)}
          [] op = "data"   ->
                 {[res |-> ImageWin_data(acc.width, acc.RowPitch),
                   val |-> <<frame>>]}

\* A caller reads an accessor it holds; the conversions to_rgba and to_rgb
\* (lib.rs:99-157) read through data().
WinRead(a, op, x, y) ==
    /\ \E o \in WinReadOutcomes(a, op, x, y) :
           win_read' = [acc |-> a, op |-> op, outcome |-> o, x |-> x, y |-> y]
    /\ UNCHANGED <<win_output, win_duplicator, win_image, win_textures,
                   win_accessors, win_mode, win_hist>>
    /\ UNCHANGED <<x11vars, capvars, thrvars, matchvars, fnvars, clockvars>>

InitWin ==
    /\ IdleX11
    /\ IdleCapturer
    /\ IdleThreaded
    /\ IdleMatcher
    /\ IdleWin
    /\ IdleFn
    /\ IdleClock

NextWin ==
    \/ \E found \in BOOLEAN, dup_ok \in BOOLEAN :
           CaptureWin_prepare(found, dup_ok)
    \/ \E acq \in AcquireErrors \cup {"Frame"}, create_ok \in BOOLEAN :
           CaptureWin_capture(acq, create_ok)
    \/ \E create_ok \in BOOLEAN, map_ok \in BOOLEAN, pad \in RowPads :
           CaptureWin_image(create_ok, map_ok, pad)
    \/ CaptureWin_resolution
    \/ \E m \in WinModes : WinModeChange(m)
    \/ \E a \in WinAccessors :
           \/ \E op \in WinReadOps \ {"pixel"} : WinRead(a, op, 0, 0)
           \/ \E c \in WinCoords(a) : WinRead(a, "pixel", c[1], c[2])

SpecWin == InitWin /\ [][NextWin]_vars

(***************************************************************************)
(* Claims about CaptureWin.                                                *)
(***************************************************************************)
\* The call that has just returned, in a step that made one.
WinReturned == win_hist'[Len(win_hist')]

\* A step in which capture_image called AcquireNextFrame and it timed out.
WinTimedOut ==
    /\ Len(win_hist') = Len(win_hist) + 1
    /\ WinReturned.op = "capture_image"
    /\ WinReturned.val = <<"DXGI_ERROR_WAIT_TIMEOUT">>

\* C21: when acquiring the next frame times out, capture_image succeeds and
\* leaves the held snapshot as it was if there is one, and returns a
\* transient failure, still holding no snapshot, if there is none.
C21_TimeoutKeepsSnapshot ==
    [][WinTimedOut =>
           IF win_image # 0
           THEN /\ WinReturned.res = "Ok"
                /\ win_image' = win_image
                /\ win_textures'[win_image] = win_textures[win_image]
           ELSE /\ WinReturned.res = "TransientError"
                /\ win_image' = 0]_vars

\* C21: a timeout before the first frame was reported as a transient
\* failure, and a timeout after a frame was taken returned success.
C21_Witness ==
    \E i, j \in 1..Len(win_hist) :
        /\ i < j
        /\ win_hist[i].val = <<"DXGI_ERROR_WAIT_TIMEOUT">>
        /\ win_hist[i].res = "TransientError"
        /\ win_hist[j].val = <<"DXGI_ERROR_WAIT_TIMEOUT">>
        /\ win_hist[j].res = "Ok"
        /\ win_image # 0

\* What a caller can see through accessor a: its fields and its texture.
ImageWinContent(a) == <<win_accessors[a], win_textures[win_accessors[a].image]>>

\* No call on the backend and no mode change alters an accessor handed out.
C22_UnchangedByBackend ==
    [][\A a \in WinAccessors : ImageWinContent(a)' = ImageWinContent(a)]_vars

\* C22: an accessor returned by image() owns its copy of the frame: later
\* calls on the backend leave its dimensions and pixels as they were, and
\* no read of it fails.
C22_OwnCopy ==
    /\ C22_UnchangedByBackend
    /\ [](win_read.op # "none" => win_read.outcome.res = "Ok")

\* C23: every call of resolution() returns the geometry the display has at
\* the time of the call.
C23_ResolutionIsDisplayGeometry ==
    \A i \in 1..Len(win_hist) :
        win_hist[i].op = "resolution" =>
            win_hist[i].val = <<win_hist[i].mode.width, win_hist[i].mode.height>>

(***************************************************************************)
(* The worker's pacing (capturer.rs:298-350), seen with its clock: the     *)
(* rate is constant and positive, no message arrives, every capture        *)
(* succeeds.                                                               *)
(***************************************************************************)
\* The clock's resolution: one tick is 100 ms.
TicksPerSecond == 10

\* Duration::from_millis(100), the longest single sleep (capturer.rs:312).
SleepLimit == 1

\* How many ticks a successful capturer.capture() may take.
CaptureTicks == {0, 1, 3}

\* How many ticks late std::thread::sleep may return.
SleepLate == {0, 1}

PacingRates == {2, 5}

\* capturer.rs:299: Duration::from_secs_f32(1.0 / rate).
Interval(rate) == TicksPerSecond \div rate

\* capturer.rs:300.
start_timepoint_no_interval == last_end - last_duration
start_timepoint == last_end + Interval(config.rate) - last_duration

\* capturer.rs:308-321: the attempt is not due yet; sleep and look again,
\* going round the loop when it is still not due.
PacingWait(late) ==
    /\ wpc = "schedule"
    /\ now <= start_timepoint
    /\ LET limited == Min(start_timepoint - now, SleepLimit)
           woke    == now + limited + late
       IN  /\ woke <= MaxTime
           /\ now' = woke
           /\ wpc' = IF woke <= start_timepoint THEN "schedule" ELSE "pre"
    /\ UNCHANGED <<last_end, last_duration>>
    /\ UNCHANGED <<running, owner, counter, pre_callback, post_callback,
                   chan_config, chan_pre, chan_post, mirror, latest, latest_lock,
                   w_img, w_info, log, w_effect, lastSeen, stopped_starts>>
    /\ UNCHANGED <<x11vars, capvars, matchvars, winvars, fnvars>>

\* capturer.rs:309: the attempt is overdue, no sleep.
PacingDue ==
    /\ wpc = "schedule"
    /\ now > start_timepoint
    /\ wpc' = "pre"
    /\ UNCHANGED <<running, owner, counter, pre_callback, post_callback,
                   chan_config, chan_pre, chan_post, mirror, latest, latest_lock,
                   w_img, w_info, log, w_effect, lastSeen, stopped_starts>>
    /\ UNCHANGED <<x11vars, capvars, matchvars, winvars, fnvars, clockvars>>

\* capturer.rs:323-350: one attempt whose capture succeeds after d ticks; the
\* post callback is invoked at the attempt's end.
PacingAttempt(d) ==
    /\ wpc = "pre"
    /\ now + d <= MaxTime
    /\ counter' = NextCounter(counter)
    /\ w_img' = "Ok"
    /\ w_info' = BuildInfo(w_img', now, d, counter')
    /\ latest' = w_info'
    /\ log' = log \o <<Entry("pre", counter', pre_callback, DefaultCaptureInfo),
                       Entry("post", counter', post_callback, w_info')>>
    /\ now' = now + d
    /\ last_duration' = d
    /\ last_end' = now + d
    /\ wpc' = "schedule"
    /\ UNCHANGED <<running, owner, pre_callback, post_callback, chan_config,
                   chan_pre, chan_post, mirror, latest_lock, w_effect, lastSeen,
                   stopped_starts>>
    /\ UNCHANGED <<x11vars, capvars, matchvars, winvars, fnvars>>

\* The worker has started (capturer.rs:257-266) and is at the top of its
\* loop with nothing to drain.
InitPacing ==
    /\ IdleX11
    /\ overflow_checks = TRUE
    /\ \E r \in PacingRates : config = [capture |-> <<>>, rate |-> r]
    /\ cached_resolution = <<>>
    /\ resolution = [width |-> 2, height |-> 2]
    /\ cap_status = "ready"
    /\ trace = <<>>
    /\ running = TRUE
    /\ owner = "alive"
    /\ wpc = "schedule"
    /\ counter = 0
    /\ pre_callback = 0
    /\ post_callback = 0
    /\ chan_config = <<>>
    /\ chan_pre = <<>>
    /\ chan_post = <<>>
    /\ mirror = config
    /\ latest = DefaultCaptureInfo
    /\ latest_lock = "free"
    /\ w_img = "none"
    /\ w_info = DefaultCaptureInfo
    /\ log = <<>>
    /\ w_effect = NoEffect
    /\ lastSeen = DefaultCaptureInfo
    /\ stopped_starts = 0
    /\ IdleMatcher
    /\ IdleWin
    /\ IdleFn
    /\ IdleClock

NextPacing ==
    \/ \E late \in SleepLate : PacingWait(late)
    \/ PacingDue
    \/ \E d \in CaptureTicks : PacingAttempt(d)

SpecPacing == InitPacing /\ [][NextPacing]_vars

\* The invocations of the post callback so far, in order.
PostCalls == SelectSeq(log, LAMBDA e : e.kind = "post")

\* How many of them were made no later than time D.
PostsBy(D) ==
    Cardinality({i \in 1..Len(PostCalls) :
                     PostCalls[i].info.time + PostCalls[i].info.duration <= D})

\* C24: at a constant positive rate R, with every capture succeeding, the
\* number of post-callback invocations in the first D ticks is
\* floor(R * D) give or take one, and the counters passed go up by one.
C24_RateHeld ==
    /\ \A D \in 0..(now - 1) :
           LET n == (config.rate * D) \div TicksPerSecond
           IN  PostsBy(D) \in (n - 1)..(n + 1)
    /\ \A i \in 1..(Len(PostCalls) - 1) :
           PostCalls[i + 1].info.counter = PostCalls[i].info.counter + 1

\* The counters passed to the post callback go up by one each time.
C24_CountersStepByOne ==
    \A i \in 1..Len(PostCalls) : PostCalls[i].info.counter = i

\* No two attempts start less than one interval apart, so no more than
\* floor(R * D) + 1 of them start in any D ticks.
C24_NeverFaster ==
    \A i \in 1..(Len(PostCalls) - 1) :
        PostCalls[i + 1].info.time > PostCalls[i].info.time + Interval(config.rate) - 1

(***************************************************************************)
(* More claims about the ThreadedCapturer.                                 *)
(***************************************************************************)
\* No attempt has stored its record yet: none was begun, or the first one is
\* still before its store, or it ended in a panic.
NoAttemptCompleted ==
    \/ counter = 0
    \/ counter = 1 /\ wpc \in {"capture", "lock", "store", "panicked"}

\* C25: until the first attempt has stored its record, and so for ever when
\* the rate never becomes positive, the record latest() returns is the
\* default one: the not-initialised error, counter 0, zero duration.
C25_DefaultUntilFirstAttempt ==
    LET default == [result |-> "NotInitialised", time |-> 0, duration |-> 0,
                    counter |-> 0]
    IN  /\ NoAttemptCompleted => latest = default /\ lastSeen = default
        /\ (\A i \in 1..Len(log) : log[i].kind # "capture") => latest = default

\* C25: the first attempt has captured a frame and is about to take the lock,
\* while the record a reader gets is still the default one.
C25_Witness ==
    /\ counter = 1
    /\ wpc = "lock"
    /\ w_img = "Ok"
    /\ latest_lock = "free"
    /\ latest = DefaultCaptureInfo
    /\ lastSeen = DefaultCaptureInfo

\* C26: set_config, set_pre_callback and set_post_callback can be called in
\* every state of the worker, whether it runs, sleeps, holds the lock or has
\* ended, and none of them makes its caller panic.
C26_SettersNeverBlockOrFail ==
    /\ owner # "panicked"
    /\ (owner = "alive" /\ MaySend) =>
           /\ \A c \in ThreadedConfigs : ENABLED ThreadedSetConfig(c)
           /\ \A f \in Callbacks :
                  /\ ENABLED ThreadedSetPreCallback(f)
                  /\ ENABLED ThreadedSetPostCallback(f)

\* C26: the worker has ended in a panic while the ThreadedCapturer is still
\* in use, so every send from now on finds its receiver gone.
C26_Witness ==
    /\ wpc = "panicked"
    /\ owner = "alive"
    /\ counter = 1

(***************************************************************************)
(* The conversions to RGBA, on bytes: to_rgba_simple (lib.rs:99-118) and   *)
(* avx2_simd_bgr_to_rgba (simd.rs:31-91).                                  *)
(***************************************************************************)
\* struct BGR (lib.rs:34-42) is repr(C), align(4): in memory a pixel is the
\* bytes b, g, r and one byte of padding.
BGR(b, g, r, pad) == <<b, g, r, pad>>
FieldB(px) == px[1]
FieldG(px) == px[2]
FieldR(px) == px[3]

\* data.as_ptr() seen as *const u8: the byte at offset k of the slice.
ByteAt(pixels, k) == pixels[(k \div 4) + 1][(k % 4) + 1]

\* simd.rs:40.
STEP_SIZE == 32

\* simd.rs:47-52: the shuffle control of one 128-bit lane, lowest byte first.
\* No entry has its top bit set, so no output byte is zeroed.
lane_mask_identity == <<0, 1, 2, 3, 4, 5, 6, 7, 8, 9, 10, 11, 12, 13, 14, 15>>
lane_mask == <<2, 1, 0, 0, 6, 5, 4, 0, 10, 9, 8, 0, 14, 13, 12, 0>>

\* _mm256_shuffle_epi8(v, mask): byte i of the result is the byte of v, in
\* the same lane as i, that the low four bits of mask[i] select.
mm256_shuffle_epi8(v, mask) ==
    [i \in 1..STEP_SIZE |->
        LET lane == ((i - 1) \div 16) * 16
        IN  v[lane + mask[((i - 1) % 16) + 1] + 1]]

\* simd.rs:44: alpha_mask is 0xFF000000 in each 32-bit word, so in memory the
\* bytes 0, 0, 0, 255; _mm256_or_si256 with it keeps the first three bytes
\* of each word and sets the fourth to 255.
mm256_or_alpha(v) == [i \in 1..STEP_SIZE |-> IF i % 4 = 0 THEN 255 ELSE v[i]]

\* simd.rs:54-76: one full chunk, from the load at pos to the stored bytes.
Chunk(pixels, pos) ==
    LET v == [i \in 1..STEP_SIZE |-> ByteAt(pixels, pos + i - 1)]
    IN  mm256_or_alpha(mm256_shuffle_epi8(v, lane_mask))

\* simd.rs:31-91: the bytes handed to RgbaImage::from_raw.
avx2_simd_bgr_to_rgba(w, h, pixels) ==
    LET total_len == w * h * 4
        chunks    == total_len \div STEP_SIZE
    IN  [p \in 1..total_len |->
            IF p - 1 < chunks * STEP_SIZE
            THEN Chunk(pixels, ((p - 1) \div STEP_SIZE) * STEP_SIZE)
                     [((p - 1) % STEP_SIZE) + 1]
            ELSE LET px == pixels[((p - 1) \div 4) + 1]
                 IN  CASE (p - 1) % 4 = 0 -> FieldR(px)
                       [] (p - 1) % 4 = 1 -> FieldG(px)
                       [] (p - 1) % 4 = 2 -> FieldB(px)
                       [] OTHER           -> 255]

\* lib.rs:99-118: the bytes handed to RgbaImage::from_raw.
to_rgba_simple(w, h, pixels) ==
    [p \in 1..(w * h * 4) |->
        LET px == pixels[((p - 1) \div 4) + 1]
        IN  CASE (p - 1) % 4 = 0 -> FieldR(px)
              [] (p - 1) % 4 = 1 -> FieldG(px)
              [] (p - 1) % 4 = 2 -> FieldB(px)
              [] OTHER           -> 255]

\* The images converted: w x h pixels whose channels differ from each other
\* and from pixel to pixel, with arbitrary padding bytes.
ConvertSeeds == {0, 100, 171}
ConvertHeights == {1, 2, 3}
TestPixel(i, seed) ==
    BGR((seed + 3 * i) % 256, (2 * seed + 5 * i + 1) % 256,
        (510 - seed - 7 * i) % 256, (seed + i) % 256)
TestImage(w, h, seed) == [i \in 1..(w * h) |-> TestPixel(i, seed)]

ConvertCall ==
    /\ f_ret = <<>>
    /\ f_ret' =
           <<[simd   |-> avx2_simd_bgr_to_rgba(f_args.width, f_args.height,
                                               f_args.data),
              simple |-> to_rgba_simple(f_args.width, f_args.height,
                                        f_args.data)]>>
    /\ UNCHANGED f_args
    /\ UNCHANGED <<x11vars, capvars, thrvars, matchvars, winvars, clockvars>>

InitConvert ==
    /\ IdleX11
    /\ IdleCapturer
    /\ IdleThreaded
    /\ IdleMatcher
    /\ IdleWin
    /\ IdleClock
    /\ \E w \in 0..MaxWidth, h \in ConvertHeights, seed \in ConvertSeeds :
           f_args = [width |-> w, height |-> h, data |-> TestImage(w, h, seed)]
    /\ f_ret = <<>>

NextConvert == ConvertCall

SpecConvert == InitConvert /\ [][NextConvert]_vars

\* C27: the vectorized and the scalar conversion give the same bytes for
\* every pixel count, and pixel i of the output is r, g, b, 255 of pixel i of
\* the input.
C27_SimdEqualsSimple ==
    f_ret # <<>> =>
        /\ f_ret[1].simd = f_ret[1].simple
        /\ Len(f_ret[1].simd) = 4 * f_args.width * f_args.height
        /\ \A i \in 1..(f_args.width * f_args.height) :
               /\ f_ret[1].simd[4 * i - 3] = f_args.data[i][3]
               /\ f_ret[1].simd[4 * i - 2] = f_args.data[i][2]
               /\ f_ret[1].simd[4 * i - 1] = f_args.data[i][1]
               /\ f_ret[1].simd[4 * i] = 255

\* C27: 45 pixels were converted: five full chunks of eight pixels and five
\* pixels left over for the scalar tail.
C27_Witness ==
    /\ f_ret # <<>>
    /\ f_args.width * f_args.height = 45
    /\ f_ret[1].simd = f_ret[1].simple

(***************************************************************************)
(* pixel(x, y) of the three accessors, called on its own.                  *)
(***************************************************************************)
\* ImageX11::pixel (linux.rs:34-58) on an accessor that is neither poisoned
\* nor released, of w x h pixels of 4 bytes in rows without padding.
ImageX11_pixel(w, h, x, y) ==
    IF x > w \/ y > h THEN {PixelPanic}
    ELSE LET stride == 4
         IN  ReadWord(y * w * stride + x * stride, 4 * w, w, h)

\* RasterImage::index (raster_image.rs:13-15).
index(w, x, y) == y * w + x

\* RasterImage::pixel (raster_image.rs:149-151) through data_rgb (17-19):
\* indexing the Vec of w * h pixels panics past its end.
RasterImage_pixel(w, h, x, y) ==
    IF index(w, x, y) >= w * h THEN {PixelPanic}
    ELSE {PixelAt(index(w, x, y) % w, index(w, x, y) \div w)}

PixelKinds == {"ImageX11", "ImageWin", "RasterImage"}

\* The calls studied: coordinates inside the image, on its edge (x = width,
\* y = height) and one beyond.
PixelCalls ==
    {[kind |-> k, width |-> w, height |-> h, RowPitch |-> 4 * w, x |-> x,
      y |-> y] :
         k \in {"ImageX11", "RasterImage"}, w \in 1..MaxSide, h \in 1..MaxSide,
         x \in 0..(MaxSide + 1), y \in 0..(MaxSide + 1)}
    \cup
    {[kind |-> "ImageWin", width |-> m.width, height |-> m.height,
      RowPitch |-> 4 * m.width + pad, x |-> c[1], y |-> c[2]] :
         m \in WinModes, pad \in RowPads,
         c \in {<<0, 0>>, <<4, 1>>, <<5, 0>>, <<5, 1>>, <<6, 1>>, <<6, 2>>,
                <<0, 2>>, <<0, 3>>, <<7, 0>>, <<0, 4>>}}

PixelOutcomes(a) ==
    CASE a.kind = "ImageX11"    -> ImageX11_pixel(a.width, a.height, a.x, a.y)
      [] a.kind = "ImageWin"    ->
             ImageWin_pixel(a.width, a.height, a.RowPitch, a.x, a.y)
      [] a.kind = "RasterImage" -> RasterImage_pixel(a.width, a.height, a.x, a.y)

PixelCall ==
    /\ f_ret = <<>>
    /\ \E o \in PixelOutcomes(f_args) : f_ret' = <<o>>
    /\ UNCHANGED f_args
    /\ UNCHANGED <<x11vars, capvars, thrvars, matchvars, winvars, clockvars>>

InitPixel ==
    /\ IdleX11
    /\ IdleCapturer
    /\ IdleThreaded
    /\ IdleMatcher
    /\ IdleWin
    /\ IdleClock
    /\ f_args \in {a \in PixelCalls : a.x <= a.width + 1 /\ a.y <= a.height + 1}
    /\ f_ret = <<>>

NextPixel == PixelCall

SpecPixel == InitPixel /\ [][NextPixel]_vars

\* C28: pixel(x, y) returns the pixel stored at (x, y) when x < width and
\* y < height, and fails, instead of returning some pixel, when x >= width
\* or y >= height.
C28_PixelBounds ==
    f_ret # <<>> =>
        IF f_args.x < f_args.width /\ f_args.y < f_args.height
        THEN f_ret[1] = PixelAt(f_args.x, f_args.y)
        ELSE f_ret[1].res = "Panic"

\* The part of C28 about coordinates inside the image.
C28_InRange ==
    (f_ret # <<>> /\ f_args.x < f_args.width /\ f_args.y < f_args.height) =>
        f_ret[1] = PixelAt(f_args.x, f_args.y)

(***************************************************************************)
(* bisect (displaylight/src/border_detection.rs:11-33), called on its own. *)
(* A predicate on 0..MaxIndex is the sequence of its values, f[i + 1]      *)
(* being f(i).                                                             *)
(***************************************************************************)
Apply(f, i) == f[i + 1]

\* border_detection.rs:16-26: the while loop, from its test on.
RECURSIVE bisect_loop(_, _, _, _, _)
bisect_loop(f, min, max, upper, lower) ==
    IF (max - min) > 1 /\ upper # lower
    THEN LET upper1   == Apply(f, max)
             lower1   == Apply(f, min)
             midpoint == (max + min) \div 2
             center   == Apply(f, midpoint)
         IN  IF center # lower1
             THEN bisect_loop(f, min, midpoint, upper1, lower1)
             ELSE bisect_loop(f, midpoint, max, upper1, lower1)
    ELSE IF upper THEN max ELSE min

\* border_detection.rs:11-33; lines 14-15 set upper from f(min) and lower
\* from f(max).
bisect(f, min, max) == bisect_loop(f, min, max, Apply(f, min), Apply(f, max))

Predicates == [1..(MaxIndex + 1) -> BOOLEAN]

BisectCall ==
    /\ f_ret = <<>>
    /\ f_ret' = <<bisect(f_args.f, f_args.min, f_args.max)>>
    /\ UNCHANGED f_args
    /\ UNCHANGED <<x11vars, capvars, thrvars, matchvars, winvars, clockvars>>

InitBisect ==
    /\ IdleX11
    /\ IdleCapturer
    /\ IdleThreaded
    /\ IdleMatcher
    /\ IdleWin
    /\ IdleClock
    /\ \E f \in Predicates, min \in 0..MaxIndex, max \in 0..MaxIndex :
           /\ min < max
           /\ f_args = [f |-> f, min |-> min, max |-> max]
    /\ f_ret = <<>>

NextBisect == BisectCall

SpecBisect == InitBisect /\ [][NextBisect]_vars

\* The places t in min..max-1 where f(t) and f(t + 1) differ.
Transitions(f, min, max) ==
    {t \in min..(max - 1) : Apply(f, t) # Apply(f, t + 1)}

\* What C29 says bisect returns for a predicate with at most one transition.
Expected(f, min, max) ==
    IF Transitions(f, min, max) = {}
    THEN IF Apply(f, min) THEN max ELSE min
    ELSE LET t == CHOOSE t \in Transitions(f, min, max) : TRUE
         IN  IF Apply(f, min) THEN t ELSE t + 1

\* C29: for min < max and a predicate with exactly one transition in
\* min..max, bisect returns the index next to the transition at which the
\* predicate is true; for a constant predicate it returns max when the
\* predicate is true and min when it is false.
C29_BisectFindsTransition ==
    (f_ret # <<>> /\ Cardinality(Transitions(f_args.f, f_args.min, f_args.max)) <= 1)
        => f_ret[1] = Expected(f_args.f, f_args.min, f_args.max)

\* The same for the calls with at least one index between min and max.
C29_WhenApart ==
    (/\ f_ret # <<>>
     /\ f_args.max - f_args.min > 1
     /\ Cardinality(Transitions(f_args.f, f_args.min, f_args.max)) <= 1)
        => f_ret[1] = Expected(f_args.f, f_args.min, f_args.max)

(***************************************************************************)
(* find_borders (displaylight/src/border_detection.rs:35-88), called on    *)
(* images that are black outside a rectangle [x0, x1) x [y0, y1).          *)
(***************************************************************************)
\* image.get_pixel(x, y) of such an image.
get_pixel(img, x, y) ==
    IF img.x0 <= x /\ x < img.x1 /\ img.y0 <= y /\ y < img.y1
    THEN "yellow" ELSE "black"

Max(a, b) == IF a > b THEN a ELSE b

\* The closures given to bisect, as sequences of their values.
RowIsBlack(img, y)  == [i \in 1..img.width |-> get_pixel(img, i - 1, y) = "black"]
RowNotBlack(img, y) == [i \in 1..img.width |-> get_pixel(img, i - 1, y) # "black"]
ColIsBlack(img, x)  == [i \in 1..img.height |-> get_pixel(img, x, i - 1) = "black"]
ColNotBlack(img, x) == [i \in 1..img.height |-> get_pixel(img, x, i - 1) # "black"]

\* border_detection.rs:47-48: the scan lines of pass i.
mid_x(img, n, i) == ((img.width - 1) \div (n + 1)) * (i + 1)
mid_y(img, n, i) == ((img.height - 1) \div (n + 1)) * (i + 1)

\* border_detection.rs:41-72: the four bisections of pass i.
bisection_res(img, n, i) ==
    LET max_x    == img.width - 1
        max_y    == img.height - 1
        center_x == max_x \div 2
        center_y == max_y \div 2
    IN  <<bisect(RowIsBlack(img, mid_y(img, n, i)), 0, center_x),
          bisect(RowNotBlack(img, mid_y(img, n, i)), center_x, max_x),
          bisect(ColIsBlack(img, mid_x(img, n, i)), 0, center_y),
          bisect(ColNotBlack(img, mid_x(img, n, i)), center_y, max_y)>>

\* border_detection.rs:73-80: the reduction of passes 0..k.
RECURSIVE reduce(_, _, _)
reduce(img, n, k) ==
    IF k = 0 THEN bisection_res(img, n, 0)
    ELSE LET a == reduce(img, n, k - 1)
             b == bisection_res(img, n, k)
         IN  <<Min(a[1], b[1]), Max(a[2], b[2]), Min(a[3], b[3]),
               Max(a[4], b[4])>>

\* find_borders with bisections_per_side = n >= 1.
find_borders(img, n) ==
    LET bounds == reduce(img, n, n - 1)
    IN  [x_min |-> bounds[1], x_max |-> bounds[2], y_min |-> bounds[3],
         y_max |-> bounds[4]]

BisectionsPerSide == {1, 2}

\* The images given: every size up to MaxImage and every rectangle in it
\* that holds the centre and is crossed by a scan line each way.
BorderImages ==
    {img \in [width : 1..MaxImage, height : 1..MaxImage, x0 : 0..MaxImage,
              x1 : 1..MaxImage, y0 : 0..MaxImage, y1 : 1..MaxImage] :
        /\ img.x0 < img.x1 /\ img.x1 <= img.width
        /\ img.y0 < img.y1 /\ img.y1 <= img.height
        /\ get_pixel(img, (img.width - 1) \div 2, (img.height - 1) \div 2)
               # "black"}

Crossed(img, n) ==
    /\ \E i \in 0..(n - 1) : img.x0 <= mid_x(img, n, i) /\ mid_x(img, n, i) < img.x1
    /\ \E i \in 0..(n - 1) : img.y0 <= mid_y(img, n, i) /\ mid_y(img, n, i) < img.y1

BordersCall ==
    /\ f_ret = <<>>
    /\ f_ret' = <<find_borders(f_args.img, f_args.n)>>
    /\ UNCHANGED f_args
    /\ UNCHANGED <<x11vars, capvars, thrvars, matchvars, winvars, clockvars>>

InitBorders ==
    /\ IdleX11
    /\ IdleCapturer
    /\ IdleThreaded
    /\ IdleMatcher
    /\ IdleWin
    /\ IdleClock
    /\ \E img \in BorderImages, n \in BisectionsPerSide :
           /\ Crossed(img, n)
           /\ f_args = [img |-> img, n |-> n]
    /\ f_ret = <<>>

NextBorders == BordersCall

SpecBorders == InitBorders /\ [][NextBorders]_vars

\* What C30 says find_borders returns.
ExpectedBorders(img) ==
    [x_min |-> Max(img.x0 - 1, 0), x_max |-> img.x1 - 1,
     y_min |-> Max(img.y0 - 1, 0), y_max |-> img.y1 - 1]

\* C30: on an image black outside a rectangle that holds the centre and is
\* crossed by a scan line each way, find_borders returns the last black
\* column and row before the rectangle (0 when there is none) and the last
\* column and row of the rectangle; on an image with no black that is
\* (0, W - 1, 0, H - 1).
C30_BordersOfRectangle ==
    f_ret # <<>> => f_ret[1] = ExpectedBorders(f_args.img)

\* The same for the images in which every bisection has at least one index
\* between its ends.
C30_WhenWide ==
    (f_ret # <<>> /\ f_args.img.width >= 5 /\ f_args.img.height >= 5)
        => f_ret[1] = ExpectedBorders(f_args.img)


(***************************************************************************)
(* Claims about the worker's loop, checked under SpecThreaded.             *)
(***************************************************************************)
\* A step of the run leaves channel chan alone, takes its oldest message,
\* adds one message at its end, or ends the worker, whose receivers go.
Fifo(chan, chan_next, gone_next) ==
    \/ chan_next = chan
    \/ chan # <<>> /\ chan_next = Tail(chan)
    \/ Len(chan_next) = Len(chan) + 1 /\ SubSeq(chan_next, 1, Len(chan)) = chan
    \/ gone_next /\ chan_next = <<>>

\* C31: the three channels are drained at the start of an iteration, in send
\* order and until they are empty, each message taken replacing what the one
\* before it set; the Capturer's configuration and the mirror config() reads
\* change together and only to a message taken from the channel, so to a
\* configuration that was sent; the callbacks change only in their drain, and
\* an attempt is made with the callbacks the last drain left.
C31_DrainLastWins ==
    /\ [](mirror = config)
    /\ [][/\ Fifo(chan_config, chan_config', WorkerGone')
          /\ Fifo(chan_pre, chan_pre', WorkerGone')
          /\ Fifo(chan_post, chan_post', WorkerGone')
          /\ (config' # config \/ mirror' # mirror) =>
                 /\ wpc \in {"drain_config", "recv"}
                 /\ chan_config # <<>>
                 /\ config' = chan_config[1]
                 /\ mirror' = chan_config[1]
                 /\ chan_config' = Tail(chan_config)
          /\ pre_callback' # pre_callback =>
                 /\ wpc = "drain_pre"
                 /\ chan_pre # <<>>
                 /\ pre_callback' = chan_pre[1]
                 /\ chan_pre' = Tail(chan_pre)
          /\ post_callback' # post_callback =>
                 /\ wpc = "drain_post"
                 /\ chan_post # <<>>
                 /\ post_callback' = chan_post[1]
                 /\ chan_post' = Tail(chan_post)
          /\ (wpc = "drain_config" /\ chan_config # <<>>) =>
                 \/ wpc' = "drain_config"
                 \/ WorkerGone'
          /\ (wpc = "drain_config" /\ wpc' # wpc) =>
                 chan_config = <<>> /\ wpc' = "drain_pre"
          /\ (wpc = "drain_pre" /\ wpc' # wpc) =>
                 chan_pre = <<>> /\ wpc' = "drain_post"
          /\ (wpc = "drain_post" /\ wpc' # wpc) =>
                 chan_post = <<>> /\ wpc' = "rate"
          /\ (wpc = "pre" /\ wpc' # wpc) =>
                 log'[Len(log')] = Entry("pre", counter', pre_callback,
                                         DefaultCaptureInfo)
          /\ (wpc = "post" /\ wpc' # wpc) =>
                 log'[Len(log')].cb = post_callback
         ]_vars

\* C31: both callbacks were sent before the first attempt, the drains took
\* them, and the first attempt was made with them.
C31_Witness ==
    /\ Len(log) = 3
    /\ log[1].kind = "pre" /\ log[1].cb = 1
    /\ log[3].kind = "post" /\ log[3].cb = 1
    /\ mirror = config


\* The worker is within an attempt: its pre-capture callback has been called
\* and its post-capture callback has not returned yet.
WithinAttempt == wpc \in {"capture", "lock", "store", "post"}

\* C32: the worker does not change the Capturer's configuration between the
\* pre-capture and the post-capture callback of an attempt, and it does not
\* begin an attempt on waking from its sleep while a configuration is waiting
\* in the channel.
C32_ConfigBetweenAttempts ==
    [][/\ WithinAttempt => config' = config
       /\ (wpc = "sleep" /\ chan_config # <<>>) => wpc' # "pre"]_vars

\* Within an attempt the configuration and the cached resolution change only
\* by the capture() of that attempt, which leaves the configuration alone.
C32_NoChangeWithinAttempt ==
    [][WithinAttempt =>
           /\ config' = config
           /\ mirror' = mirror
           /\ wpc # "capture" => cached_resolution' = cached_resolution]_vars


(***************************************************************************)
(* More claims about the worker's pacing, checked under SpecPacing.        *)
(***************************************************************************)
\* C33: at a positive rate the worker begins an attempt only after
\* previous_end + 1/rate - previous_duration, which for the first attempt is
\* the worker's start + 1/rate; so the first attempt starts at least 1/rate
\* after the worker and each later one at least 1/rate after the one before,
\* however long that one's capture took.
C33_NotBeforeStartTimepoint ==
    /\ [][(wpc # "pre" /\ wpc' = "pre") =>
              now' > last_end + (TicksPerSecond \div config.rate) - last_duration]_vars
    /\ [](\A i \in 1..Len(PostCalls) :
              LET start(k) == IF k = 0 THEN 0 ELSE PostCalls[k].info.time
              IN  start(i) - start(i - 1) >= TicksPerSecond \div config.rate)

\* C33: the first capture took longer than the interval (300 ms at 5 per
\* second) and the second attempt has been made.
C33_Witness ==
    /\ config.rate = 5
    /\ Len(PostCalls) >= 2
    /\ PostCalls[1].info.duration = 3
    /\ PostCalls[2].info.time = PostCalls[1].info.time + 3


(***************************************************************************)
(* The worker's locks, checked under SpecThreaded.                         *)
(***************************************************************************)
\* Where the worker is when it runs the backend capture, sleeps, waits on the
\* configuration channel or calls the pre- or the post-capture callback.
Blocking == {"pre", "capture", "sleep", "recv", "post"}

\* C34: the worker holds the mutex of the latest record only while it builds
\* and stores the record, so not while it captures, sleeps, waits on the
\* channel or runs a callback; the mutex of the mirror it takes and releases
\* within the step that copies a configuration. So a latest() call by a
\* reader or from inside a callback finds the mutex free, and the worker
\* finds it free when it comes to store.
C34_NoLockAcrossBlocking ==
    /\ latest_lock = "worker" => wpc = "store"
    /\ wpc \in Blocking => latest_lock = "free"
    /\ (wpc # "store" /\ owner = "alive") => ENABLED ThreadedLatest
    /\ wpc = "lock" => ENABLED WorkerLock

\* C34: while the post-capture callback of an attempt runs, a reader has got
\* that attempt's record.
C34_Witness ==
    /\ wpc = "post"
    /\ counter >= 1
    /\ latest.counter = counter
    /\ lastSeen = latest
    /\ latest_lock = "free"


(***************************************************************************)
(* Re-enabling a disabled worker, checked under SpecThreadedTimely.        *)
(***************************************************************************)
\* The post-capture callback of attempt n has been called.
Posted(n) == \E i \in 1..Len(log) : log[i].kind = "post" /\ log[i].n = n

\* A configuration that disables capture is waiting in the channel.
DisablingPending == \E i \in 1..Len(chan_config) : chan_config[i].rate <= 0

\* C35: when the worker waits on the channel because the rate is not
\* positive and a configuration with a positive rate has been sent, then,
\* unless the capturer is dropped or capture is disabled again, the worker
\* applies it and makes the next attempt, up to its post-capture callback.
C35_ReenableResumes ==
    \A n \in 0..(MaxCounter - 1) :
        (/\ wpc = "recv"
         /\ counter = n
         /\ running
         /\ chan_config # <<>>
         /\ ~DisablingPending)
            ~> (Posted(n + 1) \/ ~running \/ DisablingPending)

\* The same up to the attempt's pre-capture callback: the worker applies the
\* configuration and begins the attempt.
C35_ReenableBegins ==
    \A n \in 0..(MaxCounter - 1) :
        (/\ wpc = "recv"
         /\ counter = n
         /\ running
         /\ chan_config # <<>>
         /\ ~DisablingPending)
            ~> (counter = n + 1 \/ ~running \/ DisablingPending)


(***************************************************************************)
(* Teardown and resources of the shared-memory backend, checked under      *)
(* SpecX11.                                                                *)
(***************************************************************************)
\* C36: dropping the backend completes without a panic in whatever state it
\* is: before any prepare, after a prepare that failed, after a prepare that
\* succeeded, after a capture.
C36_TeardownNeverPanics ==
    /\ x11_state # "drop_panicked"
    /\ \A i \in 1..Len(hist) : hist[i].op = "drop" => hist[i].ok

\* The server images created by prepare (linux.rs:162-173) and not released
\* by XDestroyImage.
AllocatedImages == {i \in 1..Len(ximages) : ~ximages[i].freed}

\* The shared-memory segments created and mapped by prepare (linux.rs:178-186),
\* one with each image. Nothing in linux.rs detaches or removes a segment.
AllocatedSegments == 1..Len(ximages)

\* C37: after any sequence of prepare calls at most one server image and at
\* most one shared-memory segment made by the backend are allocated, and after
\* the backend is dropped none is.
C37_OneSnapshotResource ==
    /\ Cardinality(AllocatedImages) <= 1
    /\ Cardinality(AllocatedSegments) <= 1
    /\ x11_state = "dropped" =>
           AllocatedImages = {} /\ AllocatedSegments = {}

\* The accessors handed out whose flag is not set.
Unpoisoned == {a \in Accessors : ~flags[accessors[a].poisoned]}

\* C40: at most one accessor handed out is unpoisoned; an accessor is
\* poisoned once image(), capture_image() or prepare() has been called after
\* it was handed out; and a poisoned accessor stays poisoned.
C40_AtMostOneReadable ==
    /\ [](Cardinality(Unpoisoned) <= 1)
    /\ [](\A a \in Accessors :
              CallsAfter(a, Len(hist)) \cap {"image", "capture_image", "prepare"} # {}
                  => a \notin Unpoisoned)
    /\ [][\A a \in Accessors : a \notin Unpoisoned => a \notin Unpoisoned']_vars

\* C40: the first accessor was poisoned by a capture_image(), the second was
\* handed out after it and is the one unpoisoned.
C40_Witness ==
    /\ Len(accessors) = 2
    /\ Unpoisoned = {2}
    /\ CallsAfter(1, Len(hist)) = {"capture_image", "image"}
    /\ CallsAfter(2, Len(hist)) = {}

(***************************************************************************)
(* Failures inside Capturer::capture, checked under SpecCapturer.          *)
(***************************************************************************)
\* The capture() call recorded in e made a prepare call that failed.
PrepareFailed(e) == PrepareCalls(e) = {1} /\ e.calls[1].ret # "Ok"

\* The capture() call recorded in e ended in a failing capture_image.
CaptureImageFailed(e) ==
    /\ e.calls # <<>>
    /\ e.calls[Len(e.calls)].fn = "capture_image"
    /\ e.calls[Len(e.calls)].ret # "Ok"

\* The capture() call recorded in e panicked in the matcher, before any
\* backend call.
MatcherPanicked(e) == e.result = "Panic" /\ e.calls = <<>>

\* C38: when prepare fails inside capture(), the cached resolution stays what
\* it was, capture_image and image are not called, and the next capture()
\* calls prepare again.
C38_FailedPrepareRetried ==
    \A i \in Captures :
        LET e == trace[i]
        IN  PrepareFailed(e) =>
                /\ e.after = e.cached
                /\ Len(e.calls) = 1
                /\ e.result = e.calls[1].ret
                /\ (i + 1 \in Captures /\ ~MatcherPanicked(trace[i + 1])) =>
                       PrepareCalls(trace[i + 1]) = {1}

\* The same, the next capture() being one that finds the resolution of the
\* failed one.
C38_WhenResolutionStays ==
    \A i \in Captures :
        LET e == trace[i]
        IN  PrepareFailed(e) =>
                /\ e.after = e.cached
                /\ Len(e.calls) = 1
                /\ e.result = e.calls[1].ret
                /\ (i + 1 \in Captures /\ ~MatcherPanicked(trace[i + 1])
                        /\ trace[i + 1].cur = e.cur) =>
                       PrepareCalls(trace[i + 1]) = {1}

====
